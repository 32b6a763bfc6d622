------------------------------ MODULE MCSessions ------------------------------
(* A small instance of Administration for TLC. *)
EXTENDS Administration, TLC

CONSTANTS ann, bob, phone, tablet, desk, q1, q2

\* Ann has a phone and a tablet; Bob administers from his desk.
Owners == (phone :> ann) @@ (tablet :> ann) @@ (desk :> bob)

Desk == desk :> bob

\* One mishap or one admin call beside three tokens, or three calls beside two: Bob
\* promotes Ann, who logs in and demotes him, and he demotes her with an older token.
EitherOr == {<<1, 0, 3>>, <<0, 1, 3>>, <<0, 3, 2>>}

Neither == {<<0, 0, 4>>}

\* Slots are alike, and so are Ann's two devices.
Symmetric == Permutations({q1, q2}) \cup Permutations({phone, tablet})
================================================================================
