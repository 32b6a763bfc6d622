--------------------------- MODULE AppReleasesProofs ---------------------------
(***************************************************************************)
(* Proofs about AppReleases, for any versions, operators and bounds.       *)
(***************************************************************************)
EXTENDS AppReleases, TLAPS

Inserting(o) == publication[o].step = "insert"

\* At most one publication is under way unless they have overlapped.
OneAtATime == disturbed \/ \A o, p \in Operators : Publishing(o) /\ Publishing(p) => o = p

\* Undisturbed, there is no latest release between the unmarking and the
\* insertion, and otherwise it is the newest.
LatestIsNewest ==
  \/ disturbed
  \/ IF \E o \in Operators : Inserting(o) THEN Latest = {} ELSE Latest = {newest} \ {NoVersion}

\* From the unmarking on a publication has its APK in the store.
StoredFirst == \A o \in Operators : publication[o].step \in {"unmark", "insert"} =>
                 publication[o].apk \in apks

ReleasesInv ==
  ReleasesTypeOK /\ DownloadsWork /\ StoredFirst /\ OneAtATime /\ LatestIsNewest

LEMMA InitReleases == ReleasesInit => ReleasesInv
<1> SUFFICES ASSUME ReleasesInit PROVE ReleasesInv
  OBVIOUS
<1>1. Released = {} /\ Latest = {}
  BY DEF ReleasesInit, Released, Latest, NotPublished
<1>2. ReleasesTypeOK
  <2>1. NotPublished \in [apk : Apks \cup {0}, latest : BOOLEAN]
    BY DEF NotPublished
  <2>2. published \in 0 .. MaxPublications /\ breaks \in 0 .. MaxBreaks
    BY ReleasesAssumption DEF ReleasesInit
  <2> QED
    BY <1>1, <2>1, <2>2 DEF ReleasesInit, ReleasesTypeOK
<1>3. ~ \E o \in Operators : Inserting(o)
  BY DEF ReleasesInit, Inserting, NoRequest
<1>4. StoredFirst /\ OneAtATime
  BY DEF ReleasesInit, StoredFirst, OneAtATime, Publishing, NoRequest
<1> QED
  BY <1>1, <1>2, <1>3, <1>4 DEF ReleasesInit, ReleasesInv, DownloadsWork, LatestIsNewest

LEMMA PublishKeeps ==
  ASSUME ReleasesInv, NEW o \in Operators, NEW v \in Versions, Publish(o, v)
  PROVE  ReleasesInv'
<1> DEFINE r == [version |-> v, step |-> "store", apk |-> published + 1]
<1> USE DEF ReleasesInv, Publish
<1>1. published \in Nat /\ MaxPublications \in Nat /\ published + 1 \in Apks
  BY ReleasesAssumption DEF ReleasesTypeOK, Apks
<1>2. r \in [version : Versions, step : {"store", "unmark", "insert"}, apk : Apks]
  BY <1>1
<1>3. publication' = [publication EXCEPT ![o] = r] /\ publication'[o] = r
  BY DEF ReleasesTypeOK
<1>4. \A p \in Operators \ {o} : publication'[p] = publication[p]
  BY <1>3 DEF ReleasesTypeOK
<1>5. ReleasesTypeOK'
  <2>1. published' \in 0 .. MaxPublications
    BY <1>1
  <2>2. publication' \in [Operators -> [version : Versions, step : {"store", "unmark", "insert"},
                                        apk : Apks] \cup {NoRequest}]
    BY <1>2, <1>3 DEF ReleasesTypeOK
  <2>3. Latest' = Latest /\ Released' = Released
    BY DEF Latest, Released
  <2> QED
    BY <2>1, <2>2, <2>3 DEF ReleasesTypeOK
<1>6. DownloadsWork' /\ StoredFirst'
  BY <1>3, <1>4 DEF DownloadsWork, StoredFirst, Released
<1>7. OneAtATime'
  BY <1>4 DEF OneAtATime, Others, Publishing
<1>8. LatestIsNewest'
  <2>1. Latest' = Latest
    BY DEF Latest
  <2>2. ~Inserting(o) /\ ~Inserting(o)'
    BY <1>3 DEF Inserting, Publishing, NoRequest
  <2>3. \A p \in Operators : Inserting(p)' <=> Inserting(p)
    BY <1>4, <2>2 DEF Inserting
  <2> QED
    BY <2>1, <2>3 DEF LatestIsNewest
<1> QED
  BY <1>5, <1>6, <1>7, <1>8

LEMMA StoreKeeps ==
  ASSUME ReleasesInv, NEW o \in Operators, store_apk(o)
  PROVE  ReleasesInv'
<1> DEFINE Request == [version : Versions, step : {"store", "unmark", "insert"}, apk : Apks]
<1> USE DEF ReleasesInv, store_apk, Advance
<1>1. publication[o] \in Request /\ Publishing(o)
  BY DEF ReleasesTypeOK, Publishing, NoRequest
<1>2. publication'[o] = [publication[o] EXCEPT !.step = "unmark"] /\ publication'[o] \in Request
  BY <1>1 DEF ReleasesTypeOK
<1>3. \A p \in Operators \ {o} : publication'[p] = publication[p]
  BY DEF ReleasesTypeOK
<1>4. ReleasesTypeOK'
  <2>1. publication' \in [Operators -> Request \cup {NoRequest}]
    BY <1>2 DEF ReleasesTypeOK
  <2>2. Latest' = Latest /\ Released' = Released
    BY DEF Latest, Released
  <2> QED
    BY <1>1, <2>1, <2>2 DEF ReleasesTypeOK
<1>5. DownloadsWork' /\ StoredFirst'
  BY <1>1, <1>2, <1>3 DEF DownloadsWork, StoredFirst, Released
<1>6. OneAtATime'
  BY <1>1, <1>3 DEF OneAtATime, Publishing
<1>7. LatestIsNewest'
  BY <1>1, <1>2, <1>3 DEF LatestIsNewest, Inserting, Latest
<1> QED
  BY <1>4, <1>5, <1>6, <1>7

LEMMA UnmarkKeeps ==
  ASSUME ReleasesInv, NEW o \in Operators, UnmarkLatest(o)
  PROVE  ReleasesInv'
<1> DEFINE Request == [version : Versions, step : {"store", "unmark", "insert"}, apk : Apks]
<1> USE DEF ReleasesInv, UnmarkLatest, Advance
<1>1. publication[o] \in Request /\ Publishing(o)
  BY DEF ReleasesTypeOK, Publishing, NoRequest
<1>2. publication'[o] = [publication[o] EXCEPT !.step = "insert"] /\ publication'[o] \in Request
  BY <1>1 DEF ReleasesTypeOK
<1>3. \A p \in Operators \ {o} : publication'[p] = publication[p]
  BY DEF ReleasesTypeOK
<1>4. Latest' = {}
  BY DEF Latest, ReleasesTypeOK
<1>5. \A v \in Versions : release'[v].apk = release[v].apk
  BY DEF ReleasesTypeOK
<1>6. Released' = Released
  BY <1>5 DEF Released
<1>7. ReleasesTypeOK'
  <2>1. publication' \in [Operators -> Request \cup {NoRequest}]
    BY <1>2 DEF ReleasesTypeOK
  <2>2. release' \in [Versions -> [apk : Apks \cup {0}, latest : BOOLEAN]]
    BY DEF ReleasesTypeOK
  <2> QED
    BY <1>4, <2>1, <2>2 DEF ReleasesTypeOK
<1>8. DownloadsWork' /\ StoredFirst'
  <2>1. DownloadsWork'
    BY <1>5, <1>6 DEF DownloadsWork, Released
  <2>2. publication[o].apk \in apks /\ publication'[o].apk = publication[o].apk
    BY <1>1, <1>2 DEF StoredFirst
  <2>3. StoredFirst'
    BY <1>3, <2>2 DEF StoredFirst
  <2> QED
    BY <2>1, <2>3
<1>9. OneAtATime'
  <2>1. \A p \in Operators \ {o} : Publishing(p)' => p \in Others(o)
    BY <1>3 DEF Others, Publishing
  <2> QED
    BY <2>1 DEF OneAtATime
<1>10. LatestIsNewest'
  BY <1>2, <1>4 DEF LatestIsNewest, Inserting
<1> QED
  BY <1>7, <1>8, <1>9, <1>10

LEMMA InsertKeeps ==
  ASSUME ReleasesInv, NEW o \in Operators, InsertRelease(o)
  PROVE  ReleasesInv'
<1> DEFINE Request == [version : Versions, step : {"store", "unmark", "insert"}, apk : Apks]
<1> DEFINE v == publication[o].version
<1> USE DEF ReleasesInv, InsertRelease, Finish
<1>1. publication[o] \in Request /\ Publishing(o) /\ Inserting(o)
  BY DEF ReleasesTypeOK, Publishing, Inserting, NoRequest
<1>2. publication'[o] = NoRequest /\ ~Inserting(o)'
  BY DEF ReleasesTypeOK, Inserting, NoRequest
<1>3. \A p \in Operators \ {o} : publication'[p] = publication[p]
  BY DEF ReleasesTypeOK
<1>4. v \in Versions /\ publication[o].apk \in Apks /\ 0 \notin Apks
  BY <1>1 DEF Apks
<1>5. release'[v] = [apk |-> publication[o].apk, latest |-> TRUE]
  BY <1>4 DEF ReleasesTypeOK
<1>6. \A w \in Versions \ {v} : release'[w] = release[w]
  BY DEF ReleasesTypeOK
<1>7. Released' = Released \cup {v} /\ Latest' = Latest \cup {v}
  BY <1>4, <1>5, <1>6 DEF Released, Latest
<1>8. ReleasesTypeOK'
  <2>1. publication' \in [Operators -> Request \cup {NoRequest}]
    BY DEF ReleasesTypeOK
  <2>2. release' \in [Versions -> [apk : Apks \cup {0}, latest : BOOLEAN]]
    BY <1>4, <1>5 DEF ReleasesTypeOK
  <2> QED
    BY <1>4, <1>7, <2>1, <2>2 DEF ReleasesTypeOK
<1>9. DownloadsWork'
  BY <1>1, <1>5, <1>6, <1>7 DEF DownloadsWork, StoredFirst, Released
<1>10. StoredFirst'
  BY <1>2, <1>3 DEF StoredFirst, NoRequest
<1>11. OneAtATime'
  BY <1>2, <1>3 DEF OneAtATime, Publishing
<1>12. LatestIsNewest'
  <2> SUFFICES ASSUME ~disturbed' PROVE LatestIsNewest'
    BY DEF LatestIsNewest
  <2>1. Latest' = {newest'} \ {NoVersion}
    BY <1>1, <1>4, <1>7, ReleasesAssumption DEF LatestIsNewest
  <2>2. \A p \in Operators : ~Inserting(p)'
    BY <1>1, <1>2, <1>3 DEF OneAtATime, Publishing, Inserting, NoRequest
  <2> QED
    BY <2>1, <2>2 DEF LatestIsNewest
<1> QED
  BY <1>8, <1>9, <1>10, <1>11, <1>12

LEMMA EndKeeps ==
  ASSUME ReleasesInv, NEW o \in Operators, InsertRefused(o) \/ BreakOff(o)
  PROVE  ReleasesInv'
<1> DEFINE Request == [version : Versions, step : {"store", "unmark", "insert"}, apk : Apks]
<1> USE DEF ReleasesInv, InsertRefused, BreakOff, Finish
<1>1. publication'[o] = NoRequest /\ ~Inserting(o)' /\ ~Publishing(o)'
  BY DEF ReleasesTypeOK, Inserting, Publishing, NoRequest
<1>2. \A p \in Operators \ {o} : publication'[p] = publication[p]
  BY DEF ReleasesTypeOK
<1>3. Latest' = Latest /\ Released' = Released
  BY DEF Latest, Released
<1>4. ReleasesTypeOK'
  <2>1. publication' \in [Operators -> Request \cup {NoRequest}]
    BY DEF ReleasesTypeOK
  <2>2. breaks' \in 0 .. MaxBreaks
    BY ReleasesAssumption DEF ReleasesTypeOK
  <2>3. disturbed' \in BOOLEAN
    BY DEF ReleasesTypeOK
  <2> QED
    BY <1>3, <2>1, <2>2, <2>3 DEF ReleasesTypeOK
<1>5. DownloadsWork' /\ StoredFirst'
  BY <1>1, <1>2, <1>3 DEF DownloadsWork, StoredFirst, NoRequest
<1>6. OneAtATime'
  BY <1>1, <1>2 DEF OneAtATime, Publishing
<1>7. LatestIsNewest'
  <2> SUFFICES ASSUME ~disturbed' PROVE LatestIsNewest'
    BY DEF LatestIsNewest
  <2>1. ~disturbed /\ ~Inserting(o)
    BY DEF Inserting
  <2>2. \A p \in Operators : Inserting(p)' <=> Inserting(p)
    BY <1>1, <1>2, <2>1 DEF Inserting
  <2> QED
    BY <1>3, <2>1, <2>2 DEF LatestIsNewest
<1> QED
  BY <1>4, <1>5, <1>6, <1>7

LEMMA StepReleases == ReleasesInv /\ [ReleasesNext]_releaseVars => ReleasesInv'
<1> SUFFICES ASSUME ReleasesInv, [ReleasesNext]_releaseVars PROVE ReleasesInv'
  OBVIOUS
<1>1. CASE UNCHANGED releaseVars
  BY <1>1 DEF releaseVars, ReleasesInv, ReleasesTypeOK, DownloadsWork, StoredFirst, OneAtATime,
     LatestIsNewest, Inserting, Publishing, Released, Latest
<1>2. CASE ReleasesNext
  BY <1>2, PublishKeeps, StoreKeeps, UnmarkKeeps, InsertKeeps, EndKeeps DEF ReleasesNext
<1> QED
  BY <1>1, <1>2

\* The invariant holds in every state of publish_release's interleavings and failures.
THEOREM ReleasesCorrect == ReleasesSpec => []ReleasesInv
BY InitReleases, StepReleases, PTL DEF ReleasesSpec

\* Whoever asks for the latest release gets the one inserted last and no other,
\* once a publication ran alone, however the ones before it ended.
THEOREM OneLatestCorrect == ReleasesSpec => []OneLatest
<1>1. ReleasesInv => OneLatest
  BY DEF ReleasesInv, LatestIsNewest, OneLatest, Inserting
<1> QED
  BY <1>1, ReleasesCorrect, PTL

\* Every release names an APK that is stored.
THEOREM DownloadsWorkCorrect == ReleasesSpec => []DownloadsWork
<1>1. ReleasesInv => DownloadsWork
  BY DEF ReleasesInv
<1> QED
  BY <1>1, ReleasesCorrect, PTL

\* No step replaces the APK of a release or takes the release away.
THEOREM PublishedIsFinalCorrect == ReleasesSpec => PublishedIsFinal
<1> DEFINE Final == \A v \in Released : v \in Released' /\ release'[v].apk = release[v].apk
<1>1. ReleasesInv /\ [ReleasesNext]_releaseVars => [Final]_release
  <2> SUFFICES ASSUME ReleasesInv, ReleasesNext, release' # release PROVE Final
    BY DEF releaseVars
  <2>1. PICK o \in Operators : UnmarkLatest(o) \/ InsertRelease(o)
    BY DEF ReleasesNext, Publish, store_apk, InsertRefused, BreakOff
  <2>2. CASE UnmarkLatest(o)
    BY <2>2 DEF UnmarkLatest, Released, ReleasesInv, ReleasesTypeOK
  <2>3. CASE InsertRelease(o)
    BY <2>3 DEF InsertRelease, Released, ReleasesInv, ReleasesTypeOK
  <2> QED
    BY <2>1, <2>2, <2>3
<1>2. ReleasesSpec => [][ReleasesNext]_releaseVars
  BY DEF ReleasesSpec
<1> QED
  BY <1>1, <1>2, ReleasesCorrect, PTL DEF PublishedIsFinal

================================================================================
