----------------------------- MODULE AppReleases ------------------------------
(***************************************************************************)
(* The self-hosted app updates: POST /app/releases stores an APK and makes *)
(* it the latest release, GET /app/latest-version and the download serve   *)
(* it.  There is one platform, ANDROID.                                    *)
(*                                                                         *)
(* A publication is four awaited operations on the store: look the version *)
(* up, store the APK, unmark the latest releases, insert the new one.      *)
(***************************************************************************)
EXTENDS Naturals, FiniteSets

CONSTANTS
  Versions,         \* the version codes, which operators choose freely
  Operators,        \* bound on publications in progress
  MaxPublications,  \* bound on publications that pass the first look
  MaxBreaks,        \* bound on publications that break off
  NoVersion

ASSUME ReleasesAssumption ==
  /\ MaxPublications \in Nat /\ MaxBreaks \in Nat /\ NoVersion \notin Versions

VARIABLES
  release,      \* app_releases: per version code, its APK (0: none) and is_latest
  apks,         \* the files in GridFS
  publication,  \* what each operator's request is doing
  published,    \* publications begun; the last one's number names its APK
  breaks,
  newest,       \* the version inserted last
  disturbed     \* publications have overlapped or broken off since the last unmarking
                \* that one did alone

releaseVars == <<release, apks, publication, published, breaks, newest, disturbed>>

Apks == 1 .. MaxPublications

NotPublished == [apk |-> 0, latest |-> FALSE]
NoRequest    == [version |-> NoVersion, step |-> "idle", apk |-> 0]

Publishing(o) == publication[o] # NoRequest
Others(o)     == {p \in Operators \ {o} : Publishing(p)}
Released      == {v \in Versions : release[v].apk # 0}
Latest        == {v \in Versions : release[v].latest}

Advance(o, step) == publication' = [publication EXCEPT ![o].step = step]
Finish(o)        == publication' = [publication EXCEPT ![o] = NoRequest]

--------------------------------------------------------------------------------

\* Past the checks of the file and the look at the version code (409).
Publish(o, v) ==
  /\ ~Publishing(o) /\ published < MaxPublications
  /\ v \notin Released
  /\ published' = published + 1
  /\ publication' = [publication EXCEPT ![o] = [version |-> v, step |-> "store",
                                                apk |-> published + 1]]
  /\ disturbed' = (disturbed \/ Others(o) # {})
  /\ UNCHANGED <<release, apks, breaks, newest>>

\* Mutant of store_apk: the upload is not awaited.
store_apk_unawaited(o) ==
  /\ publication[o].step = "store"
  /\ Advance(o, "unmark")
  /\ UNCHANGED <<release, apks, published, breaks, newest, disturbed>>

store_apk(o) ==
  /\ publication[o].step = "store"
  /\ apks' = apks \cup {publication[o].apk}
  /\ Advance(o, "unmark")
  /\ UNCHANGED <<release, published, breaks, newest, disturbed>>

\* Mutant of UnmarkLatest: one release is unmarked (update_one).
UnmarkOne(o) ==
  /\ publication[o].step = "unmark"
  /\ release' = IF Latest = {} THEN release
                ELSE [release EXCEPT ![CHOOSE v \in Latest : TRUE].latest = FALSE]
  /\ Advance(o, "insert")
  /\ disturbed' = (Others(o) # {})
  /\ UNCHANGED <<apks, published, breaks, newest>>

\* The first half of create_release.
UnmarkLatest(o) ==
  /\ publication[o].step = "unmark"
  /\ release' = [v \in Versions |-> [release[v] EXCEPT !.latest = FALSE]]
  /\ Advance(o, "insert")
  /\ disturbed' = (Others(o) # {})
  /\ UNCHANGED <<apks, published, breaks, newest>>

\* The second half.  The unique index on (platform, version_code) refuses a
\* version that another request inserted since the look.
InsertRelease(o) ==
  LET r == publication[o] IN
  /\ r.step = "insert"
  /\ r.version \notin Released
  /\ release' = [release EXCEPT ![r.version] = [apk |-> r.apk, latest |-> TRUE]]
  /\ newest' = r.version
  /\ Finish(o)
  /\ UNCHANGED <<apks, published, breaks, disturbed>>

InsertRefused(o) ==
  /\ publication[o].step = "insert"
  /\ publication[o].version \in Released
  /\ disturbed' = TRUE
  /\ Finish(o)
  /\ UNCHANGED <<release, apks, published, breaks, newest>>

\* The process or the connection goes between two steps; nothing is undone.
BreakOff(o) ==
  /\ Publishing(o) /\ breaks < MaxBreaks
  /\ breaks' = breaks + 1
  /\ disturbed' = (disturbed \/ publication[o].step = "insert")
  /\ Finish(o)
  /\ UNCHANGED <<release, apks, published, newest>>

--------------------------------------------------------------------------------

ReleasesInit ==
  /\ release = [v \in Versions |-> NotPublished]
  /\ apks = {}
  /\ publication = [o \in Operators |-> NoRequest]
  /\ published = 0
  /\ breaks = 0
  /\ newest = NoVersion
  /\ disturbed = FALSE

ReleasesNext ==
  \E o \in Operators :
    \/ \E v \in Versions : Publish(o, v)
    \/ store_apk(o) \/ UnmarkLatest(o) \/ InsertRelease(o) \/ InsertRefused(o)
    \/ BreakOff(o)

ReleasesSpec == ReleasesInit /\ [][ReleasesNext]_releaseVars

--------------------------------------------------------------------------------
(* Properties *)

\* The variables hold values of their kinds, and only a release that exists is
\* marked latest.
ReleasesTypeOK ==
  /\ release \in [Versions -> [apk : Apks \cup {0}, latest : BOOLEAN]]
  /\ apks \subseteq Apks
  /\ publication \in [Operators -> [version : Versions, step : {"store", "unmark", "insert"},
                                    apk : Apks] \cup {NoRequest}]
  /\ published \in 0 .. MaxPublications /\ breaks \in 0 .. MaxBreaks
  /\ newest \in Versions \cup {NoVersion} /\ disturbed \in BOOLEAN
  /\ Latest \subseteq Released

\* The answer to "what is latest" is the release inserted last and no other,
\* once a publication ran alone: it also repairs the two or none that
\* overlapping or broken-off publications leave behind.
OneLatest ==
  (~disturbed /\ \A o \in Operators : publication[o].step # "insert")
    => Latest = {newest} \ {NoVersion}

\* A release that can be asked for can be downloaded: its APK is stored before
\* the release document names it.
DownloadsWork == \A v \in Released : release[v].apk \in apks

\* What was published under a version code stays as it was: devices compare
\* version codes, and would never fetch a second APK with the same one.
PublishedIsFinal ==
  [][\A v \in Released : v \in Released' /\ release'[v].apk = release[v].apk]_release
================================================================================
