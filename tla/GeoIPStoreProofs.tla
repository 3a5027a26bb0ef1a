-------------------------- MODULE GeoIPStoreProofs --------------------------
(***************************************************************************)
(* Proofs about GeoIPStore: what becomes of an opened database, which file *)
(* the store serves, and what a request may learn from whom.               *)
(***************************************************************************)
EXTENDS GeoIPStore, TLAPS

MaybeReader == Readers \cup {NoReader}

Stores == [reader : MaybeReader, loaded : Nat, polling : BOOLEAN, closed : BOOLEAN]
Reloads == [pc : {"idle", "stat", "compare", "open", "install", "previous"}, info : Nat,
            reader : MaybeReader]
Statuses == {"none", "ok", "invalid_location", "location_required", "internal_error",
             "location_unavailable"}
Locals == [pc : {"idle", "arrived", "resolve", "reading", "answered"}, input : Inputs \cup {Absent},
           ip : Addresses \cup {Absent, Malformed}, reader : MaybeReader, status : Statuses]

StoreTypeOK ==
    /\ conf \in Configuration
    /\ file \in [id : Nat, kind : Kinds \cup {"none"}] /\ updates \in Nat
    /\ open \subseteq Readers /\ content \in [Readers -> Nat]
    /\ store \in Stores
    /\ reload \in [Threads -> Reloads]
    /\ poller \in {"off", "waiting", "reloading", "stopped"}
    /\ main \in {"new", "loading", "serving", "shutdown", "wlock", "geoip", "await", "service", "exited"}
    /\ taken \in MaybeReader

TypeOK == StoreTypeOK /\ hung \in BOOLEAN /\ up \in BOOLEAN /\ request \in [Requests -> Locals]

\* One reload at a time: Start's, before the goroutine runs, or the poll's.
ReloadInv ==
    /\ \A t \in Threads : /\ reload[t].pc \in {"idle", "stat", "compare", "open"} => reload[t].reader = NoReader
                          /\ reload[t].pc = "install" => reload[t].reader # NoReader
    /\ reload["start"].pc # "idle" => main = "loading"
    /\ reload["poll"].pc # "idle" => poller = "reloading"
    /\ main \in {"new", "loading"} => poller = "off"

\* What Close has done so far.
CloseInv ==
    /\ poller = "stopped" => store.closed
    /\ main = "await" => store.closed
    /\ store.closed => store.reader = NoReader
    /\ taken # NoReader => main = "await"

\* A reader has one owner.
Distinct ==
    /\ store.reader # NoReader => store.reader # taken /\ \A t \in Threads : store.reader # reload[t].reader
    /\ taken # NoReader => \A t \in Threads : taken # reload[t].reader

\* A request reads from the store's reader.
Reading == \A r \in Requests : request[r].pc = "reading" =>
              request[r].reader = store.reader /\ store.reader # NoReader

\* No reader holds a file from the future, and a reader about to be installed
\* none that is older than the store's.
Newest ==
    /\ file.kind # "none" => file.id = updates
    /\ \A x \in Readers : content[x] <= updates
    /\ \A t \in Threads : reload[t].pc = "install" /\ store.reader # NoReader =>
          content[reload[t].reader] >= content[store.reader]

StoreInv == StoreTypeOK /\ ReloadInv /\ CloseInv /\ Distinct /\ open = Owned /\ Newest

\* The errors a request may end with, given what it asked.
Ends(c, q) ==
    IF EffectivePoint(c, q).error # "lookup" THEN {EffectivePoint(c, q).error}
    ELSE {"none", "unavailable"} \cup (IF Resolver(c) = "store" THEN {} ELSE {"panic"})

\* Where the address and the status of a request come from.
Asked(l) ==
    LET e == EffectivePoint(conf, l.input)
    IN  /\ l.pc \in {"arrived", "resolve", "reading", "answered"} => l.input \in Inputs
        /\ l.pc = "arrived" => l.ip = Absent
        /\ l.pc \in {"resolve", "reading"} => e.error = "lookup"
        /\ l.pc # "idle" => l.ip = Absent \/ (e.error = "lookup" /\ l.ip = e.ip)
        /\ l.pc # "answered" => l.status = "none"
        /\ l.pc = "answered" => \E error \in Ends(conf, l.input) :
                                    l.status = StatusOf(l.input.endpoint, error)

RequestInv == hung \in BOOLEAN /\ up \in BOOLEAN /\ request \in [Requests -> Locals]
              /\ \A r \in Requests : Asked(request[r])

Inv == StoreInv /\ Reading /\ RequestInv

-----------------------------------------------------------------------------
(* The readers.                                                            *)

\* The owners, one by one.
LEMMA Owners ==
    /\ Owned = {store.reader, taken, reload["start"].reader, reload["poll"].reader} \ {NoReader}
    /\ Owned' = {store'.reader, taken', reload'["start"].reader, reload'["poll"].reader} \ {NoReader}
BY DEF Owned, Threads

\* The variables StoreInv speaks about.
storeVars == <<conf, file, updates, open, content, store, reload, poller, main, taken>>

\* Steps that leave the store, its file and its threads alone.
LEMMA StoreStutters == ASSUME StoreInv, UNCHANGED storeVars PROVE StoreInv'
<1>1. Owned' = Owned
  BY DEF Owned, storeVars
<1> QED
  BY <1>1 DEF storeVars, StoreInv, StoreTypeOK, ReloadInv, CloseInv, Distinct, Newest

\* The store starts without a reader.
LEMMA InitStore == Init => StoreInv
<1> SUFFICES ASSUME Init PROVE StoreInv
  OBVIOUS
<1>1. store = [reader |-> NoReader, loaded |-> 0, polling |-> FALSE, closed |-> FALSE] /\ store \in Stores
  BY DEF Init, Stores, MaybeReader
<1>2. NotReloading \in Reloads /\ NotReloading.pc = "idle" /\ NotReloading.reader = NoReader
  BY DEF NotReloading, Reloads, MaybeReader
<1>3. reload \in [Threads -> Reloads] /\ \A t \in Threads : reload[t] = NotReloading
  BY <1>2 DEF Init
<1>4. "start" \in Threads /\ "poll" \in Threads
  BY DEF Threads
<1>5. StoreTypeOK
  BY <1>1, <1>3, StoreAssumption DEF Init, StoreTypeOK, NoFile, MaybeReader
<1>6. ReloadInv /\ CloseInv /\ Distinct
  BY <1>1, <1>2, <1>3, <1>4 DEF Init, ReloadInv, CloseInv, Distinct
<1>7. open = Owned
  BY <1>1, <1>2, <1>3, <1>4, Owners DEF Init
<1>8. Newest
  BY <1>2, <1>3 DEF Init, Newest, NoFile
<1> QED
  BY <1>5, <1>6, <1>7, <1>8 DEF StoreInv

\* A reload moved on, to l, and nothing else of it.
LEMMA Reloaded ==
    ASSUME StoreInv, NEW t \in Threads, NEW l \in Reloads, Reload(t, l)
    PROVE  /\ reload' \in [Threads -> Reloads] /\ reload'[t] = l
           /\ \A u \in Threads \ {t} : reload'[u] = reload[u]
BY DEF StoreInv, StoreTypeOK, Reload

\* Types of a reload and the other thread's.
LEMMA ReloadLocal ==
    ASSUME StoreInv, NEW t \in Threads, reload[t].pc # "idle"
    PROVE  /\ reload[t] \in Reloads /\ reload[t].reader \in MaybeReader
           /\ NotReloading \in Reloads /\ NotReloading.pc = "idle" /\ NotReloading.reader = NoReader
           /\ \A u \in Threads \ {t} : reload[u].pc = "idle" /\ reload[u].reader = NoReader
<1>1. NotReloading \in Reloads /\ NotReloading.pc = "idle" /\ NotReloading.reader = NoReader
  BY DEF NotReloading, Reloads, MaybeReader
<1>2. reload[t] \in Reloads
  BY DEF StoreInv, StoreTypeOK
<1>3. reload[t].reader \in MaybeReader
  BY <1>2 DEF Reloads
<1>4. \A u \in Threads \ {t} : reload[u].pc = "idle" /\ reload[u].reader = NoReader
  BY DEF StoreInv, ReloadInv, Threads
<1> QED
  BY <1>1, <1>2, <1>3, <1>4

\* A reload that touches no reader goes on, or ends.
LEMMA QuietReload ==
    ASSUME StoreInv, NEW t \in Threads, reload[t].pc \in {"stat", "compare", "open"},
           NEW l \in Reloads, l.pc \in {"idle", "stat", "compare", "open"}, l.reader = NoReader,
           Reload(t, l), UNCHANGED <<conf, file, updates, open, content, store, poller, main, taken>>
    PROVE  StoreInv'
<1>1. /\ reload' \in [Threads -> Reloads] /\ reload'[t] = l
      /\ \A u \in Threads \ {t} : reload'[u] = reload[u]
  BY Reloaded
<1>2. reload[t].reader = NoReader
  BY DEF StoreInv, ReloadInv
<1>3. \A u \in Threads : reload'[u].reader = reload[u].reader
  BY <1>1, <1>2
<1>4. Owned' = Owned
  BY <1>3 DEF Owned
<1>5. StoreTypeOK' /\ CloseInv' /\ Distinct'
  BY <1>1, <1>3 DEF StoreInv, StoreTypeOK, CloseInv, Distinct
<1>6. ReloadInv'
  BY <1>1 DEF StoreInv, ReloadInv, Threads
<1>7. Newest'
  BY <1>1 DEF StoreInv, Newest
<1> QED
  BY <1>4, <1>5, <1>6, <1>7 DEF StoreInv

\* Reload asks for the file's metadata.
LEMMA StatStore == ASSUME StoreInv, NEW t \in Threads, Stat(t) PROVE StoreInv'
<1>1. reload[t].pc = "stat" /\ reload[t].reader = NoReader /\ file.id \in Nat
  BY DEF Stat, StoreInv, StoreTypeOK, ReloadInv
<1>2. NotReloading \in Reloads /\ NotReloading.pc = "idle" /\ NotReloading.reader = NoReader
  BY <1>1, ReloadLocal
<1>3. CASE Reload(t, NotReloading)
  BY <1>1, <1>2, <1>3, QuietReload DEF Stat, files
<1>4. CASE Reload(t, [reload[t] EXCEPT !.pc = "compare", !.info = file.id])
  <2> DEFINE l == [reload[t] EXCEPT !.pc = "compare", !.info = file.id]
  <2>1. l \in Reloads /\ l.pc = "compare" /\ l.reader = NoReader
    BY <1>1, ReloadLocal DEF Reloads
  <2> HIDE DEF l
  <2>2. Reload(t, l)
    BY <1>4 DEF l
  <2> QED
    BY <1>1, <2>1, <2>2, QuietReload DEF Stat, files
<1> QED
  BY <1>3, <1>4 DEF Stat, ReloadEnds

\* Reload compares it with what is loaded.
LEMMA CompareStore == ASSUME StoreInv, NEW t \in Threads, Compare(t) PROVE StoreInv'
<1>1. reload[t].pc = "compare" /\ reload[t].reader = NoReader
  BY DEF Compare, StoreInv, StoreTypeOK, ReloadInv
<1>2. NotReloading \in Reloads /\ NotReloading.pc = "idle" /\ NotReloading.reader = NoReader
  BY <1>1, ReloadLocal
<1>3. CASE Reload(t, NotReloading)
  BY <1>1, <1>2, <1>3, QuietReload DEF Compare, files
<1>4. CASE Reload(t, [reload[t] EXCEPT !.pc = "open"])
  <2> DEFINE l == [reload[t] EXCEPT !.pc = "open"]
  <2>1. l \in Reloads /\ l.pc = "open" /\ l.reader = NoReader
    BY <1>1, ReloadLocal DEF Reloads
  <2> HIDE DEF l
  <2>2. Reload(t, l)
    BY <1>4 DEF l
  <2> QED
    BY <1>1, <2>1, <2>2, QuietReload DEF Compare, files
<1> QED
  BY <1>3, <1>4 DEF Compare, ReloadEnds

\* A fresh reader can be opened: the store and Close hold at most two.
LEMMA Fresh ==
    ASSUME StoreInv, NEW t \in Threads, reload[t].pc = "open"
    PROVE  \E r \in Readers : r \notin open
<1>1. reload["start"].reader = NoReader /\ reload["poll"].reader = NoReader
  BY ReloadLocal DEF StoreInv, ReloadInv, Threads
<1>2. open \subseteq {store.reader, taken}
  BY <1>1, Owners DEF StoreInv
<1> QED
  BY <1>2, StoreAssumption

\* Reload opens a reader, which only it owns.
LEMMA OpenStore == ASSUME StoreInv, NEW t \in Threads, Open(t) PROVE StoreInv'
<1>1. reload[t].pc = "open" /\ reload[t].reader = NoReader
  BY DEF Open, StoreInv, StoreTypeOK, ReloadInv
<1>2. NotReloading \in Reloads /\ NotReloading.pc = "idle" /\ NotReloading.reader = NoReader
  BY <1>1, ReloadLocal
<1>3. CASE file.kind # "city"
  BY <1>1, <1>2, <1>3, QuietReload DEF Open, ReloadEnds, files
<1>4. CASE file.kind = "city"
  <2> DEFINE r == CHOOSE r \in Readers : r \notin open
             l == [reload[t] EXCEPT !.pc = "install", !.reader = r]
  <2>1. r \in Readers /\ r \notin open
    BY <1>1, Fresh
  <2>2. open' = open \cup {r} /\ content' = [content EXCEPT ![r] = file.id] /\ Reload(t, l)
    BY <1>4 DEF Open
  <2> HIDE DEF r
  <2>3. l \in Reloads /\ l.pc = "install" /\ l.reader = r
    BY <1>1, <2>1, ReloadLocal DEF Reloads, MaybeReader
  <2> HIDE DEF l
  <2>4. UNCHANGED <<conf, file, updates, store, poller, main, taken>>
    BY DEF Open, files
  <2>5. /\ reload' \in [Threads -> Reloads] /\ reload'[t] = l
        /\ \A u \in Threads \ {t} : reload'[u] = reload[u]
    BY <2>2, <2>3, Reloaded
  <2>6. \A u \in Threads \ {t} : reload[u].pc = "idle" /\ reload[u].reader = NoReader
    BY <1>1, ReloadLocal
  <2>7. r # NoReader /\ r # store.reader /\ r # taken
    BY <2>1, Owners, StoreAssumption DEF StoreInv
  <2>8. file.id = updates /\ updates \in Nat /\ content \in [Readers -> Nat]
    BY <1>4 DEF StoreInv, Newest, StoreTypeOK
  <2>9. StoreTypeOK'
    BY <2>1, <2>2, <2>4, <2>5, <2>8 DEF StoreInv, StoreTypeOK
  <2>10. ReloadInv' /\ CloseInv'
    BY <1>1, <2>3, <2>4, <2>5, <2>7 DEF StoreInv, ReloadInv, CloseInv, Threads
  <2>11. Distinct'
    BY <2>3, <2>4, <2>5, <2>7 DEF StoreInv, Distinct
  <2>12. open' = Owned'
    <3>1. Owned = {store.reader, taken} \ {NoReader}
      BY <1>1, <2>6, Owners DEF Threads
    <3>2. Owned' = {store.reader, taken, r} \ {NoReader}
      BY <2>3, <2>4, <2>5, <2>6, Owners DEF Threads
    <3> QED
      BY <2>2, <2>7, <3>1, <3>2 DEF StoreInv
  <2>13. Newest'
    <3>1. content'[r] = updates /\ \A x \in Readers \ {r} : content'[x] = content[x]
      BY <2>1, <2>2, <2>8
    <3>2. \A x \in Readers : content[x] \in Nat /\ content[x] <= updates
      BY <2>8 DEF StoreInv, Newest
    <3>3. \A x \in Readers : content'[x] <= updates'
      BY <2>4, <2>8, <3>1, <3>2
    <3>4. store.reader # NoReader => store.reader \in Readers
      BY DEF StoreInv, StoreTypeOK, Stores, MaybeReader
    <3>5. store.reader # NoReader => content'[r] >= content'[store.reader]
      BY <2>4, <2>7, <2>8, <3>1, <3>3, <3>4
    <3>6. \A u \in Threads : reload'[u].pc = "install" => reload'[u].reader = r
      BY <2>3, <2>5, <2>6
    <3> QED
      BY <2>4, <3>3, <3>5, <3>6 DEF StoreInv, Newest
  <2> QED
    BY <2>9, <2>10, <2>11, <2>12, <2>13 DEF StoreInv
<1> QED
  BY <1>3, <1>4

\* Reload hands its reader to the store, or closes it when the store is closed.
LEMMA InstallStore == ASSUME StoreInv, NEW t \in Threads, Install(t) PROVE StoreInv'
<1>1. reload[t].pc = "install" /\ reload[t].reader # NoReader /\ reload[t].reader \in MaybeReader
  BY ReloadLocal DEF Install, StoreInv, ReloadInv
<1>2. NotReloading \in Reloads /\ NotReloading.pc = "idle" /\ NotReloading.reader = NoReader
  BY <1>1, ReloadLocal
<1>3. \A u \in Threads \ {t} : reload[u].pc = "idle" /\ reload[u].reader = NoReader
  BY <1>1, ReloadLocal
<1>4. UNCHANGED <<conf, file, updates, content, poller, main, taken>>
  BY DEF Install, files
<1>5. Owned = {store.reader, taken, reload[t].reader} \ {NoReader}
  BY <1>3, Owners DEF Threads
<1>6. store \in Stores
  BY DEF StoreInv, StoreTypeOK
<1>7. CASE store.closed
  <2>1. open' = open \ {reload[t].reader} /\ Reload(t, NotReloading) /\ store' = store
    BY <1>7 DEF Install, ReloadEnds
  <2>2. /\ reload' \in [Threads -> Reloads] /\ reload'[t] = NotReloading
        /\ \A u \in Threads \ {t} : reload'[u] = reload[u]
    BY <1>2, <2>1, Reloaded
  <2>3. StoreTypeOK' /\ ReloadInv' /\ CloseInv'
    BY <1>1, <1>2, <1>4, <2>1, <2>2 DEF StoreInv, StoreTypeOK, ReloadInv, CloseInv, Threads
  <2>4. Distinct' /\ Newest'
    BY <1>2, <1>4, <2>1, <2>2 DEF StoreInv, Distinct, Newest
  <2>5. Owned' = {store.reader, taken} \ {NoReader}
    BY <1>2, <1>3, <1>4, <2>1, <2>2, Owners DEF Threads
  <2>6. open' = Owned'
    BY <1>1, <1>5, <2>1, <2>5 DEF StoreInv, Distinct
  <2> QED
    BY <2>3, <2>4, <2>6 DEF StoreInv
<1>8. CASE ~store.closed
  <2> DEFINE l == [reload[t] EXCEPT !.pc = "previous", !.reader = store.reader]
             s == [store EXCEPT !.reader = reload[t].reader, !.loaded = reload[t].info]
  <2>1. Reload(t, l) /\ store' = s /\ open' = open
    BY <1>8 DEF Install
  <2>2. l \in Reloads /\ l.pc = "previous" /\ l.reader = store.reader
    BY <1>1, <1>6, ReloadLocal DEF Reloads, Stores
  <2>3. s \in Stores /\ s.reader = reload[t].reader /\ s.closed = store.closed
    BY <1>1, <1>6, ReloadLocal DEF Reloads, Stores
  <2> HIDE DEF l, s
  <2>4. /\ reload' \in [Threads -> Reloads] /\ reload'[t] = l
        /\ \A u \in Threads \ {t} : reload'[u] = reload[u]
    BY <2>1, <2>2, Reloaded
  <2>5. StoreTypeOK'
    BY <1>4, <2>1, <2>3, <2>4 DEF StoreInv, StoreTypeOK
  <2>6. ReloadInv' /\ CloseInv'
    BY <1>1, <1>4, <1>8, <2>1, <2>2, <2>3, <2>4 DEF StoreInv, ReloadInv, CloseInv, Threads
  <2>7. reload[t].reader # store.reader /\ reload[t].reader # taken /\ (store.reader # NoReader => store.reader # taken)
    BY <1>1 DEF StoreInv, Distinct
  <2>8. Distinct'
    BY <1>1, <1>3, <1>4, <2>1, <2>2, <2>3, <2>4, <2>7 DEF Distinct
  <2>9. Owned' = {reload[t].reader, taken, store.reader} \ {NoReader}
    BY <1>3, <1>4, <2>1, <2>2, <2>3, <2>4, Owners DEF Threads
  <2>10. open' = Owned'
    BY <1>5, <2>1, <2>9 DEF StoreInv
  <2>11. Newest'
    BY <1>3, <1>4, <2>2, <2>4 DEF StoreInv, Newest
  <2> QED
    BY <2>5, <2>6, <2>8, <2>10, <2>11 DEF StoreInv
<1> QED
  BY <1>7, <1>8

\* Reload closes the reader it replaced.
LEMMA ClosePreviousStore == ASSUME StoreInv, NEW t \in Threads, ClosePrevious(t) PROVE StoreInv'
<1>1. reload[t].pc = "previous"
  BY DEF ClosePrevious
<1>2. NotReloading \in Reloads /\ NotReloading.pc = "idle" /\ NotReloading.reader = NoReader
  BY <1>1, ReloadLocal
<1>3. \A u \in Threads \ {t} : reload[u].pc = "idle" /\ reload[u].reader = NoReader
  BY <1>1, ReloadLocal
<1>4. UNCHANGED <<conf, file, updates, content, store, poller, main, taken>>
  BY DEF ClosePrevious, files
<1>5. open' = open \ {reload[t].reader} /\ Reload(t, NotReloading)
  BY DEF ClosePrevious, ReloadEnds
<1>6. /\ reload' \in [Threads -> Reloads] /\ reload'[t] = NotReloading
      /\ \A u \in Threads \ {t} : reload'[u] = reload[u]
  BY <1>2, <1>5, Reloaded
<1>7. StoreTypeOK' /\ ReloadInv' /\ CloseInv'
  BY <1>1, <1>2, <1>4, <1>5, <1>6 DEF StoreInv, StoreTypeOK, ReloadInv, CloseInv, Threads
<1>8. Distinct' /\ Newest'
  BY <1>2, <1>4, <1>6 DEF StoreInv, Distinct, Newest
<1>9. open' = Owned'
  <2>1. Owned = {store.reader, taken, reload[t].reader} \ {NoReader}
    BY <1>3, Owners DEF Threads
  <2>2. Owned' = {store.reader, taken} \ {NoReader}
    BY <1>2, <1>3, <1>4, <1>6, Owners DEF Threads
  <2> QED
    BY <1>5, <2>1, <2>2 DEF StoreInv, Distinct
<1> QED
  BY <1>7, <1>8, <1>9 DEF StoreInv

\* Steps that leave the readers with their owners.
LEMMA KeepsReaders ==
    ASSUME StoreInv, UNCHANGED <<conf, file, updates, open, content, taken>>,
           store' \in Stores, store'.reader = store.reader, store'.closed = store.closed,
           reload' \in [Threads -> Reloads],
           \A t \in Threads : reload'[t].reader = reload[t].reader
                          /\ (reload'[t].pc = "install" => reload[t].pc = "install"),
           ReloadInv', CloseInv',
           poller' \in {"off", "waiting", "reloading", "stopped"},
           main' \in {"new", "loading", "serving", "shutdown", "wlock", "geoip", "await", "service", "exited"}
    PROVE  StoreInv'
<1>1. Owned' = Owned
  BY DEF Owned
<1>2. StoreTypeOK' /\ Distinct'
  BY DEF StoreInv, StoreTypeOK, Distinct
<1>3. Newest'
  BY DEF StoreInv, Newest
<1> QED
  BY <1>1, <1>2, <1>3 DEF StoreInv

\* The goroutine.
LEMMA PollStore == ASSUME StoreInv, Tick \/ PollReturns \/ PollStops PROVE StoreInv'
<1>1. store \in Stores /\ reload \in [Threads -> Reloads]
  BY DEF StoreInv, StoreTypeOK
<1>2. "poll" \in Threads /\ "start" \in Threads
  BY DEF Threads
<1>3. UNCHANGED <<conf, file, updates, open, content, taken, store, main>>
  BY DEF Tick, PollReturns, PollStops, files
<1>4. CASE Tick
  <2> DEFINE l == [NotReloading EXCEPT !.pc = "stat"]
  <2>1. l \in Reloads /\ l.pc = "stat" /\ l.reader = NoReader
    BY DEF NotReloading, Reloads, MaybeReader
  <2> HIDE DEF l
  <2>2. Reload("poll", l) /\ poller' = "reloading" /\ poller = "waiting"
    BY <1>4 DEF Tick, l
  <2>3. /\ reload' \in [Threads -> Reloads] /\ reload'["poll"] = l
        /\ \A u \in Threads \ {"poll"} : reload'[u] = reload[u]
    BY <1>2, <2>1, <2>2, Reloaded
  <2>4. reload["poll"].pc = "idle" /\ reload["poll"].reader = NoReader
    BY <1>2, <2>2 DEF StoreInv, ReloadInv
  <2>5. ReloadInv' /\ CloseInv'
    BY <1>3, <2>1, <2>2, <2>3 DEF StoreInv, ReloadInv, CloseInv, Threads
  <2>6. \A t \in Threads : reload'[t].reader = reload[t].reader
                          /\ (reload'[t].pc = "install" => reload[t].pc = "install")
    BY <2>1, <2>3, <2>4
  <2> QED
    BY <1>1, <1>3, <2>2, <2>3, <2>5, <2>6, KeepsReaders DEF StoreInv, StoreTypeOK
<1>5. CASE PollReturns \/ PollStops
  <2>1. reload' = reload /\ poller' \in {"stopped", "waiting"} /\ poller \in {"reloading", "waiting"}
        /\ reload["poll"].pc = "idle" /\ (poller' = "stopped" => store.closed)
    BY <1>2, <1>5 DEF PollReturns, PollStops, StoreInv, ReloadInv
  <2>2. ReloadInv' /\ CloseInv'
    BY <1>3, <2>1 DEF StoreInv, ReloadInv, CloseInv
  <2> QED
    BY <1>1, <1>3, <2>1, <2>2, KeepsReaders DEF StoreInv, StoreTypeOK
<1> QED
  BY <1>4, <1>5

\* Run begins the first load.
LEMMA StartStore == ASSUME StoreInv, Start PROVE StoreInv'
<1>1. store \in Stores /\ reload \in [Threads -> Reloads]
  BY DEF StoreInv, StoreTypeOK
<1>2. "poll" \in Threads /\ "start" \in Threads
  BY DEF Threads
<1>3. UNCHANGED <<conf, file, updates, open, content, taken, store, poller>> /\ main = "new"
  BY DEF Start, files
<1>4. /\ reload["start"].pc = "idle" /\ reload["start"].reader = NoReader /\ taken = NoReader
      /\ poller = "off"
  BY <1>2, <1>3 DEF StoreInv, ReloadInv, CloseInv
<1>5. CASE conf.geoip
  <2> DEFINE l == [NotReloading EXCEPT !.pc = "stat"]
  <2>1. l \in Reloads /\ l.pc = "stat" /\ l.reader = NoReader
    BY DEF NotReloading, Reloads, MaybeReader
  <2> HIDE DEF l
  <2>2. Reload("start", l) /\ main' = "loading"
    BY <1>5 DEF Start, l
  <2>3. /\ reload' \in [Threads -> Reloads] /\ reload'["start"] = l
        /\ \A u \in Threads \ {"start"} : reload'[u] = reload[u]
    BY <1>2, <2>1, <2>2, Reloaded
  <2>4. ReloadInv' /\ CloseInv'
    BY <1>3, <1>4, <2>1, <2>2, <2>3 DEF StoreInv, ReloadInv, CloseInv, Threads
  <2>5. \A t \in Threads : reload'[t].reader = reload[t].reader
                          /\ (reload'[t].pc = "install" => reload[t].pc = "install")
    BY <1>4, <2>1, <2>3
  <2>6. poller \in {"off", "waiting", "reloading", "stopped"}
    BY <1>4
  <2> QED
    BY <1>1, <1>3, <2>2, <2>3, <2>4, <2>5, <2>6, KeepsReaders
<1>6. CASE ~conf.geoip
  <2>1. reload' = reload /\ main' = "serving"
    BY <1>6 DEF Start
  <2>2. ReloadInv' /\ CloseInv'
    BY <1>3, <1>4, <2>1 DEF StoreInv, ReloadInv, CloseInv
  <2> QED
    BY <1>1, <1>3, <2>1, <2>2, KeepsReaders DEF StoreInv, StoreTypeOK
<1> QED
  BY <1>5, <1>6

\* Run starts the poll goroutine and serves.
LEMMA ServeStore == ASSUME StoreInv, Serve PROVE StoreInv'
<1>1. store \in Stores /\ reload \in [Threads -> Reloads]
  BY DEF StoreInv, StoreTypeOK
<1>2. UNCHANGED <<conf, file, updates, open, content, taken, reload>> /\ main = "loading"
      /\ main' = "serving" /\ poller' = "waiting" /\ reload["start"].pc = "idle"
  BY DEF Serve, files
<1>3. store' \in Stores /\ store'.reader = store.reader /\ store'.closed = store.closed
  BY <1>1 DEF Serve, Stores
<1>4. ReloadInv' /\ CloseInv'
  BY <1>2, <1>3 DEF StoreInv, ReloadInv, CloseInv
<1> QED
  BY <1>1, <1>2, <1>3, <1>4, KeepsReaders

\* Run moves on; nothing is closed.
LEMMA RunStore == ASSUME StoreInv, StopServing \/ ShutdownServer \/ CloseRuntime \/ Exit PROVE StoreInv'
<1>1. store \in Stores /\ reload \in [Threads -> Reloads]
  BY DEF StoreInv, StoreTypeOK
<1>2. /\ UNCHANGED <<conf, file, updates, open, content, taken, reload, store, poller>>
      /\ main \in {"serving", "shutdown", "wlock", "service"}
      /\ main' \in {"shutdown", "wlock", "geoip", "service", "exited"}
  BY DEF StopServing, ShutdownServer, CloseRuntime, Exit, files, database
<1>3. ReloadInv' /\ CloseInv'
  BY <1>2 DEF StoreInv, ReloadInv, CloseInv
<1> QED
  BY <1>1, <1>2, <1>3, KeepsReaders DEF StoreInv, StoreTypeOK

\* Store.Close takes the reader out of the store.
LEMMA CloseStoreStore == ASSUME StoreInv, CloseStore PROVE StoreInv'
<1>1. store \in Stores /\ store.reader \in MaybeReader
  BY DEF StoreInv, StoreTypeOK, Stores
<1>2. /\ UNCHANGED <<conf, file, updates, open, content, reload, poller>>
      /\ main = "geoip" /\ main' = "await" /\ taken' = store.reader
  BY DEF CloseStore, files
<1>3. store' \in Stores /\ store'.reader = NoReader /\ store'.closed
  BY <1>1 DEF CloseStore, Stores, MaybeReader
<1>4. taken = NoReader
  BY <1>2 DEF StoreInv, CloseInv
<1>5. StoreTypeOK' /\ ReloadInv' /\ CloseInv' /\ Newest'
  BY <1>1, <1>2, <1>3 DEF StoreInv, StoreTypeOK, ReloadInv, CloseInv, Newest
<1>6. Distinct'
  BY <1>2, <1>3 DEF StoreInv, Distinct
<1>7. open' = Owned'
  BY <1>2, <1>3, <1>4, Owners DEF StoreInv
<1> QED
  BY <1>5, <1>6, <1>7 DEF StoreInv

\* Close has waited for the poll goroutine and closes the reader it took.
LEMMA AwaitPollStore == ASSUME StoreInv, AwaitPoll PROVE StoreInv'
<1>1. /\ UNCHANGED <<conf, file, updates, content, reload, store, poller>>
      /\ main = "await" /\ main' = "service" /\ taken' = NoReader /\ open' = open \ {taken}
  BY DEF AwaitPoll, files
<1>2. StoreTypeOK'
  BY <1>1 DEF StoreInv, StoreTypeOK, MaybeReader
<1>3. ReloadInv' /\ CloseInv' /\ Distinct' /\ Newest'
  BY <1>1 DEF StoreInv, ReloadInv, CloseInv, Distinct, Newest
<1>4. "poll" \in Threads /\ "start" \in Threads
  BY DEF Threads
<1>5. open' = Owned'
  BY <1>1, <1>4, Owners DEF StoreInv, Distinct
<1> QED
  BY <1>2, <1>3, <1>5 DEF StoreInv

\* The file changes outside.
LEMMA FileStore == ASSUME StoreInv, Remove \/ \E k \in Kinds : Replace(k) PROVE StoreInv'
<1>1. UNCHANGED <<conf, open, content, store, reload, poller, main, taken>> /\ updates' = updates + 1
      /\ updates \in Nat /\ content \in [Readers -> Nat]
  BY DEF Remove, Replace, database, StoreInv, StoreTypeOK
<1>2. file' \in [id : Nat, kind : Kinds \cup {"none"}] /\ (file'.kind # "none" => file'.id = updates')
  BY <1>1 DEF Remove, Replace, NoFile, Kinds
<1>3. Owned' = Owned
  BY <1>1 DEF Owned
<1>4. StoreTypeOK' /\ ReloadInv' /\ CloseInv' /\ Distinct'
  BY <1>1, <1>2 DEF StoreInv, StoreTypeOK, ReloadInv, CloseInv, Distinct
<1>5. \A x \in Readers : content'[x] <= updates'
  BY <1>1 DEF StoreInv, Newest
<1>6. Newest'
  BY <1>1, <1>2, <1>5 DEF StoreInv, Newest
<1> QED
  BY <1>1, <1>3, <1>4, <1>6 DEF StoreInv

-----------------------------------------------------------------------------
(* A request.                                                              *)

\* Errors and statuses.
LEMMA Outcomes ==
    /\ \A e : Failed(e).error = e
    /\ \A p : Found(p).error = "none"
    /\ \A endpoint, e : StatusOf(endpoint, e) \in Statuses \ {"none"}
    /\ \A ip : Lookup(ip).error = "lookup" /\ Lookup(ip).ip = ip
BY DEF Failed, Found, StatusOf, Statuses, Lookup

\* Resolve gives a point or says that there is none.
LEMMA PointOutcomes == \A record : PointOf(record).error \in {"none", "unavailable"}
<1> SUFFICES ASSUME NEW record PROVE PointOf(record).error \in {"none", "unavailable"}
  OBVIOUS
<1>1. CASE PointOf(record) = Failed("unavailable")
  BY <1>1, Outcomes
<1>2. CASE PointOf(record) # Failed("unavailable")
  BY <1>2 DEF PointOf
<1> QED
  BY <1>1, <1>2

\* An address is looked up only where there is a resolver, and it is a parsed one.
LEMMA LookedUp ==
    ASSUME NEW c, NEW q \in Inputs, EffectivePoint(c, q).error = "lookup"
    PROVE  /\ Resolver(c) # "none" /\ EffectivePoint(c, q).ip = ClientIP(c, q)
           /\ ClientIP(c, q) \in Addresses
<1>1. \A p : Normalize(p).error \in {"none", "invalid"}
  BY Outcomes DEF Normalize
<1>2. \A h, source : Parsed(h, source).error \in {"none", "invalid"}
  BY <1>1 DEF Parsed
<1>3. FromRequest(q).error # "lookup"
  BY <1>2, Outcomes DEF FromRequest, NotPresent
<1>4. EffectivePoint(c, q) = Inferred(c, q)
  BY <1>3 DEF EffectivePoint
<1>5. CloudflareFromRequest(q).error # "lookup"
  BY <1>2, Outcomes DEF CloudflareFromRequest, NotPresent
<1>6. Inferred(c, q) = Lookup(ClientIP(c, q)) /\ Resolver(c) # "none" /\ ClientIP(c, q) # Malformed
  BY <1>4, <1>5, Outcomes DEF Inferred
<1>7. ClientIP(c, q) \in Addresses \cup {Malformed}
  BY StoreAssumption, LocationAssumption DEF ClientIP
<1> QED
  BY <1>4, <1>6, <1>7, Outcomes

\* Nothing of a request depends on the steps of the store.
LEMMA RequestStutters ==
    ASSUME RequestInv, UNCHANGED <<conf, request>>, hung' \in BOOLEAN, up' \in BOOLEAN
    PROVE  RequestInv'
BY DEF RequestInv, Asked

\* A request goes on to l.
LEMMA RequestMoves ==
    ASSUME Inv, NEW r \in Requests, NEW l \in Locals, Set(r, l), Asked(l),
           l.pc = "reading" => l.reader = store.reader /\ store.reader # NoReader
    PROVE  Inv'
<1>1. /\ UNCHANGED storeVars /\ hung' = hung /\ up' = up /\ conf' = conf /\ store' = store
      /\ request' = [request EXCEPT ![r] = l]
  BY DEF Set, storeVars, files, database
<1>2. StoreInv'
  BY <1>1, StoreStutters DEF Inv
<1>3. request \in [Requests -> Locals]
  BY DEF Inv, RequestInv
<1>4. request' \in [Requests -> Locals] /\ \A s \in Requests : request'[s] = IF s = r THEN l ELSE request[s]
  BY <1>1, <1>3
<1>5. Reading'
  BY <1>1, <1>4 DEF Inv, Reading
<1>6. \A x : Asked(x) => Asked(x)'
  BY <1>1 DEF Asked
<1>7. \A s \in Requests : Asked(request[s])'
  <2>1. SUFFICES ASSUME NEW s \in Requests PROVE Asked(request[s])'
    OBVIOUS
  <2>2. Asked(request'[s])
    BY <1>4 DEF Inv, RequestInv
  <2> QED
    BY <1>1, <2>2 DEF Asked
<1>8. RequestInv'
  BY <1>1, <1>4, <1>7 DEF Inv, RequestInv
<1> QED
  BY <1>2, <1>5, <1>8 DEF Inv

\* An idle connection.
LEMMA RequestEnds ==
    ASSUME Inv, NEW r \in Requests, Set(r, NoRequest)
    PROVE  Inv'
<1>1. NoRequest \in Locals /\ NoRequest.pc = "idle" /\ NoRequest.status = "none"
  BY DEF NoRequest, Locals, MaybeReader, Statuses
<1>2. Asked(NoRequest)
  BY <1>1 DEF Asked
<1> QED
  BY <1>1, <1>2, RequestMoves

\* A request is answered with one of the errors it may end with.
LEMMA RequestAnswered ==
    ASSUME Inv, NEW r \in Requests, request[r].pc \in {"arrived", "resolve", "reading"},
           NEW e \in Ends(conf, request[r].input), Answer(r, e)
    PROVE  Inv'
<1>1. request[r] \in Locals /\ Asked(request[r])
  BY DEF Inv, RequestInv
<1> DEFINE st == StatusOf(request[r].input.endpoint, e)
           l == [request[r] EXCEPT !.pc = "answered", !.reader = NoReader, !.status = st]
<1>2. Set(r, l)
  BY DEF Answer
<1>3. st \in Statuses /\ st = StatusOf(request[r].input.endpoint, e)
  BY Outcomes
<1> HIDE DEF st
<1>4. /\ l \in Locals /\ l.pc = "answered" /\ l.status = st /\ l.input = request[r].input
      /\ l.ip = request[r].ip
  BY <1>1, <1>3 DEF Locals, MaybeReader
<1> HIDE DEF l
<1>5. Asked(l)
  BY <1>1, <1>3, <1>4 DEF Asked
<1> QED
  BY <1>2, <1>4, <1>5, RequestMoves

\* Every step of a request.
LEMMA RequestNext ==
    ASSUME Inv, NEW r \in Requests, RequestStep(r) \/ \E q \in Inputs : Arrive(r, q)
    PROVE  Inv'
<1>1. request[r] \in Locals /\ Asked(request[r])
  BY DEF Inv, RequestInv
<1>2. ASSUME NEW q \in Inputs, Arrive(r, q) PROVE Inv'
  <2> DEFINE l == [NoRequest EXCEPT !.pc = "arrived", !.input = q]
  <2>1. l \in Locals /\ l.pc = "arrived" /\ l.input = q /\ l.ip = Absent /\ l.status = "none"
    BY DEF NoRequest, Locals, MaybeReader, Statuses
  <2>2. Set(r, l)
    BY <1>2 DEF Arrive
  <2> HIDE DEF l
  <2>3. Asked(l)
    BY <2>1 DEF Asked
  <2> QED
    BY <2>1, <2>2, <2>3, RequestMoves
<1>3. CASE Unconfigured(r) \/ Finish(r)
  BY <1>3, RequestEnds DEF Unconfigured, Finish
<1>4. CASE Enter(r)
  <2> DEFINE e == EffectivePoint(conf, request[r].input)
  <2>1. request[r].pc = "arrived" /\ request[r].input \in Inputs /\ request[r].status = "none"
    BY <1>1, <1>4 DEF Enter, Asked
  <2>2. CASE e.error = "lookup"
    <3> DEFINE l == [request[r] EXCEPT !.pc = "resolve", !.ip = e.ip]
    <3>1. Set(r, l)
      BY <1>4, <2>2 DEF Enter
    <3>2. e.ip \in Addresses
      BY <2>1, <2>2, LookedUp
    <3> HIDE DEF e
    <3>3. /\ l \in Locals /\ l.pc = "resolve" /\ l.status = "none" /\ l.input = request[r].input
          /\ l.ip = e.ip
      BY <1>1, <2>1, <3>2 DEF Locals
    <3> HIDE DEF l
    <3>4. Asked(l)
      BY <2>1, <2>2, <3>3 DEF Asked, e
    <3> QED
      BY <3>1, <3>3, <3>4, RequestMoves
  <2>3. CASE e.error # "lookup"
    <3>1. Answer(r, e.error) /\ e.error \in Ends(conf, request[r].input)
      BY <1>4, <2>3 DEF Enter, Ends
    <3> QED
      BY <2>1, <3>1, RequestAnswered
  <2> QED
    BY <2>2, <2>3
<1>5. CASE ResolveUnlocked(r)
  <2>1. request[r].pc = "resolve" /\ EffectivePoint(conf, request[r].input).error = "lookup"
    BY <1>1, <1>5 DEF ResolveUnlocked, Asked
  <2>2. CASE request[r].ip \notin Public
    <3>1. Answer(r, "unavailable") /\ "unavailable" \in Ends(conf, request[r].input)
      BY <1>5, <2>1, <2>2 DEF ResolveUnlocked, Ends
    <3> QED
      BY <2>1, <3>1, RequestAnswered
  <2>3. CASE request[r].ip \in Public
    <3>1. Answer(r, "panic") /\ "panic" \in Ends(conf, request[r].input)
      BY <1>5, <2>1, <2>3 DEF ResolveUnlocked, Ends
    <3> QED
      BY <2>1, <3>1, RequestAnswered
  <2> QED
    BY <2>2, <2>3
<1>6. CASE Resolve(r)
  <2>1. request[r].pc = "resolve" /\ EffectivePoint(conf, request[r].input).error = "lookup"
    BY <1>1, <1>6 DEF Resolve, Asked
  <2>2. CASE store.reader = NoReader
    <3>1. Answer(r, "unavailable") /\ "unavailable" \in Ends(conf, request[r].input)
      BY <1>6, <2>1, <2>2 DEF Resolve, Ends
    <3> QED
      BY <2>1, <3>1, RequestAnswered
  <2>3. CASE store.reader # NoReader
    <3> DEFINE l == [request[r] EXCEPT !.pc = "reading", !.reader = store.reader]
    <3>1. Set(r, l)
      BY <1>6, <2>3 DEF Resolve
    <3>2. store.reader \in MaybeReader
      BY DEF Inv, StoreInv, StoreTypeOK, Stores
    <3>3. /\ l \in Locals /\ l.pc = "reading" /\ l.reader = store.reader
          /\ l.status = request[r].status /\ l.input = request[r].input /\ l.ip = request[r].ip
      BY <1>1, <3>2 DEF Locals
    <3> HIDE DEF l
    <3>4. Asked(l)
      BY <1>1, <2>1, <3>3 DEF Asked
    <3> QED
      BY <2>3, <3>1, <3>3, <3>4, RequestMoves
  <2> QED
    BY <2>2, <2>3
<1>7. CASE ReadCity(r)
  <2> DEFINE e == PointOf(City(content[request[r].reader], request[r].ip)).error
  <2>1. request[r].pc = "reading" /\ EffectivePoint(conf, request[r].input).error = "lookup" /\ Answer(r, e)
    BY <1>1, <1>7 DEF ReadCity, Asked
  <2>2. e \in {"none", "unavailable"}
    BY PointOutcomes
  <2> HIDE DEF e
  <2>3. e \in Ends(conf, request[r].input)
    BY <2>1, <2>2 DEF Ends
  <2> QED
    BY <2>1, <2>3, RequestAnswered
<1> QED
  BY <1>2, <1>3, <1>4, <1>5, <1>6, <1>7 DEF RequestStep

-----------------------------------------------------------------------------
(* The invariant.                                                          *)

\* The process starts with nothing loaded and no request.
LEMMA InitInv == Init => Inv
<1> SUFFICES ASSUME Init PROVE Inv
  OBVIOUS
<1>1. NoRequest \in Locals /\ NoRequest.pc = "idle" /\ NoRequest.status = "none"
  BY DEF NoRequest, Locals, MaybeReader, Statuses
<1>2. request \in [Requests -> Locals] /\ \A r \in Requests : request[r] = NoRequest
  BY <1>1 DEF Init
<1>3. Asked(NoRequest)
  BY <1>1 DEF Asked
<1>4. RequestInv /\ Reading
  BY <1>1, <1>2, <1>3 DEF Init, RequestInv, Reading
<1> QED
  BY <1>4, InitStore DEF Inv

\* A step of the store that leaves its reader, or takes its lock.
LEMMA StoreSteps ==
    ASSUME Inv, StoreInv', UNCHANGED <<conf, request>>, hung' \in BOOLEAN, up' \in BOOLEAN,
           store'.reader = store.reader \/ StoreReaders = {}
    PROVE  Inv'
<1>1. Reading'
  BY DEF Inv, Reading, StoreReaders
<1> QED
  BY <1>1, RequestStutters DEF Inv

\* Every step keeps the store's and the requests' invariants.
LEMMA NextInv == Inv /\ [Next]_vars => Inv'
<1> SUFFICES ASSUME Inv, [Next]_vars PROVE Inv'
  OBVIOUS
<1>1. StoreInv /\ hung \in BOOLEAN /\ up \in BOOLEAN /\ store \in Stores
  BY DEF Inv, StoreInv, StoreTypeOK, RequestInv
<1>2. ASSUME NEW t \in Threads, ReloadStep(t) PROVE Inv'
  <2>1. StoreInv'
    BY <1>1, <1>2, StatStore, CompareStore, OpenStore, InstallStore, ClosePreviousStore DEF ReloadStep
  <2>2. UNCHANGED <<conf, request, hung, up>> /\ (store'.reader = store.reader \/ StoreReaders = {})
    BY <1>2 DEF ReloadStep, Stat, Compare, Open, Install, ClosePrevious
  <2> QED
    BY <1>1, <2>1, <2>2, StoreSteps
<1>3. CASE Tick \/ PollReturns \/ PollStops
  <2>1. UNCHANGED <<conf, request, hung, up, store>>
    BY <1>3 DEF Tick, PollReturns, PollStops
  <2> QED
    BY <1>1, <1>3, <2>1, PollStore, StoreSteps
<1>4. CASE Start \/ Serve \/ StopServing \/ ShutdownServer \/ CloseRuntime \/ Exit
  <2>1. UNCHANGED <<conf, request, hung>> /\ up' \in BOOLEAN
    BY <1>1, <1>4 DEF Start, Serve, StopServing, ShutdownServer, CloseRuntime, Exit, database
  <2>2. store'.reader = store.reader
    BY <1>1, <1>4 DEF Start, Serve, StopServing, ShutdownServer, CloseRuntime, Exit, database, Stores
  <2>3. StoreInv'
    BY <1>1, <1>4, StartStore, ServeStore, RunStore
  <2> QED
    BY <1>1, <2>1, <2>2, <2>3, StoreSteps
<1>5. CASE CloseStore \/ AwaitPoll
  <2>1. UNCHANGED <<conf, request, hung, up>> /\ (store'.reader = store.reader \/ StoreReaders = {})
    BY <1>5 DEF CloseStore, AwaitPoll
  <2> QED
    BY <1>1, <1>5, <2>1, CloseStoreStore, AwaitPollStore, StoreSteps
<1>6. CASE Remove \/ \E k \in Kinds : Replace(k)
  <2>1. UNCHANGED <<conf, request, hung, up, store>>
    BY <1>6 DEF Remove, Replace, database
  <2> QED
    BY <1>1, <1>6, <2>1, FileStore, StoreSteps
<1>7. CASE Activate \/ Hang \/ UNCHANGED vars
  <2>1. UNCHANGED storeVars /\ UNCHANGED <<conf, request, store>> /\ hung' \in BOOLEAN /\ up' \in BOOLEAN
    BY <1>1, <1>7 DEF Activate, Hang, vars, storeVars, files, database
  <2> QED
    BY <1>1, <2>1, StoreStutters, StoreSteps
<1>8. ASSUME NEW r \in Requests, RequestStep(r) \/ \E q \in Inputs : Arrive(r, q) PROVE Inv'
  BY <1>8, RequestNext
<1>9. "poll" \in Threads /\ "start" \in Threads
  BY DEF Threads
<1> QED
  BY <1>2, <1>3, <1>4, <1>5, <1>6, <1>7, <1>8, <1>9 DEF Next, RunStep, PollStep

\* The invariant holds in every reachable state.
LEMMA Invariant == Spec => []Inv
BY InitInv, NextInv, PTL DEF Spec

-----------------------------------------------------------------------------
(* The properties.                                                         *)

\* Every variable of the store, of Run and of the requests keeps its type.
THEOREM GeoIPTypeCorrect == Spec => []TypeOK
<1>1. Inv => TypeOK
  BY DEF Inv, TypeOK, StoreInv, RequestInv
<1> QED
  BY <1>1, Invariant, PTL

\* No database is closed under a request that reads it, and none is leaked,
\* whatever the order of reloads, requests and Close.
THEOREM ReadersNeverLeak == Spec => []ReadersAccounted
<1>1. ASSUME Inv PROVE ReadersAccounted
  <2>1. \A r \in Requests : request[r].pc = "reading" => request[r].reader \in open
    BY <1>1, Owners DEF Inv, StoreInv, Reading
  <2>2. ASSUME main = "service", poller = "stopped" PROVE open = {}
    <3>1. /\ store.reader = NoReader /\ taken = NoReader
          /\ reload["start"].reader = NoReader /\ reload["poll"].reader = NoReader
      BY <1>1, <2>2 DEF Inv, StoreInv, CloseInv, ReloadInv, Threads
    <3> QED
      BY <1>1, <3>1, Owners DEF Inv, StoreInv
  <2> QED
    BY <1>1, <2>1, <2>2 DEF ReadersAccounted, Inv, StoreInv
<1> QED
  BY <1>1, Invariant, PTL

\* Until Close the store keeps a database once it has one, and never goes back
\* to an older file.
THEOREM NeverBackwards == Spec => ServesOnward
<1> DEFINE Onward == store.reader # NoReader =>
                        \/ main = "geoip" /\ store'.closed
                        \/ store'.reader # NoReader /\ content'[store'.reader] >= content[store.reader]
<1>1. ASSUME Inv, [Next]_vars PROVE Onward
  <2>1. /\ store \in Stores /\ content \in [Readers -> Nat] /\ StoreInv
        /\ reload \in [Threads -> Reloads]
    BY <1>1 DEF Inv, StoreInv, StoreTypeOK
  <2>2. store.reader # NoReader => content[store.reader] \in Nat
    BY <2>1 DEF Stores, MaybeReader
  <2>3. CASE store'.reader = store.reader /\ content' = content
    BY <2>2, <2>3
  <2>4. ASSUME NEW t \in Threads, Install(t) PROVE Onward
    <3>1. CASE store.closed
      BY <2>3, <2>4, <3>1 DEF Install
    <3>2. CASE ~store.closed
      <4>1. store'.reader = reload[t].reader /\ content' = content
        BY <2>1, <2>4, <3>2 DEF Install, Stores
      <4>2. reload[t].reader # NoReader
        BY <2>1, <2>4 DEF Install, StoreInv, ReloadInv
      <4>3. store.reader # NoReader => content[reload[t].reader] >= content[store.reader]
        BY <2>1, <2>4 DEF Install, StoreInv, Newest
      <4> QED
        BY <4>1, <4>2, <4>3
    <3> QED
      BY <3>1, <3>2
  <2>5. ASSUME NEW t \in Threads, Open(t) PROVE Onward
    <3>1. store' = store
      BY <2>5 DEF Open
    <3>2. CASE file.kind # "city"
      BY <2>3, <2>5, <3>1, <3>2 DEF Open
    <3>3. CASE file.kind = "city"
      <4> DEFINE x == CHOOSE r \in Readers : r \notin open
      <4>1. x \in Readers /\ x \notin open
        BY <2>1, <2>5, Fresh DEF Open
      <4>2. content' = [content EXCEPT ![x] = file.id]
        BY <2>5, <3>3 DEF Open
      <4> HIDE DEF x
      <4>3. store.reader # NoReader => store.reader # x /\ store.reader \in Readers
        BY <2>1, <4>1, Owners DEF StoreInv, Stores, MaybeReader
      <4>4. store.reader # NoReader => content'[store.reader] = content[store.reader]
        BY <2>1, <4>2, <4>3
      <4> QED
        BY <2>2, <3>1, <4>4
    <3> QED
      BY <3>2, <3>3
  <2>6. CASE CloseStore
    BY <2>1, <2>6 DEF CloseStore, Stores
  <2>7. CASE Serve
    BY <2>1, <2>3, <2>7 DEF Serve, Stores
  <2>8. ASSUME NEW t \in Threads, Stat(t) \/ Compare(t) \/ ClosePrevious(t) PROVE Onward
    BY <2>3, <2>8 DEF Stat, Compare, ClosePrevious
  <2>9. CASE Tick \/ PollReturns \/ PollStops \/ Start \/ StopServing \/ ShutdownServer \/ CloseRuntime
             \/ AwaitPoll \/ Exit \/ Activate \/ Hang \/ Remove \/ UNCHANGED vars
    BY <2>3, <2>9 DEF Tick, PollReturns, PollStops, Start, StopServing, ShutdownServer, CloseRuntime,
                      AwaitPoll, Exit, Activate, Hang, Remove, vars, database
  <2>10. ASSUME NEW k \in Kinds, Replace(k) PROVE Onward
    BY <2>3, <2>10 DEF Replace, database
  <2>11. ASSUME NEW r \in Requests, RequestStep(r) \/ \E q \in Inputs : Arrive(r, q) PROVE Onward
    BY <2>3, <2>11 DEF RequestStep, Unconfigured, Enter, ResolveUnlocked, Resolve, ReadCity, Finish, Arrive,
                       Answer, Set, database
  <2>12. "poll" \in Threads /\ "start" \in Threads
    BY DEF Threads
  <2> HIDE DEF Onward
  <2> QED
    BY <1>1, <2>4, <2>5, <2>6, <2>7, <2>8, <2>9, <2>10, <2>11, <2>12
    DEF Next, RunStep, PollStep, ReloadStep
<1>2. Inv /\ [Next]_vars => [Onward]_vars
  BY <1>1
<1>3. Spec => [][Onward]_vars
  BY <1>2, Invariant, PTL DEF Spec
<1> QED
  BY <1>3 DEF ServesOnward

\* What a peer outside the networks puts in the proxies' headers changes
\* nothing: EffectivePoint depends on the peer and on the device's headers.
LEMMA UntrustedIgnored ==
    ASSUME NEW c, NEW q, NEW f, f.peer = q.peer, f.device = q.device, q.peer \notin TrustedNets
    PROVE  EffectivePoint(c, f) = EffectivePoint(c, q)
<1>1. FromRequest(f) = FromRequest(q)
  BY DEF FromRequest
<1>2. CloudflareFromRequest(f) = NotPresent /\ CloudflareFromRequest(q) = NotPresent
  BY DEF CloudflareFromRequest, Trusts
<1>3. ClientIP(c, f) = ClientIP(c, q)
  BY DEF ClientIP, Trusts
<1>4. Inferred(c, f) = Inferred(c, q)
  BY <1>2, <1>3 DEF Inferred
<1> QED
  BY <1>1, <1>4 DEF EffectivePoint

\* A malformed pair of a trusted proxy is an error, not a reason to look at
\* the next source.
LEMMA MalformedRefused ==
    ASSUME NEW c, NEW q, c.cloudflare, FromRequest(q) = NotPresent, q.peer \in TrustedNets,
           Malformed \in {q.cloudflare.latitude, q.cloudflare.longitude}
    PROVE  EffectivePoint(c, q) = Failed("unavailable")
<1>1. \A degrees : ~InRange(Malformed, degrees)
  BY LocationAssumption DEF InRange
<1>2. Parsed(q.cloudflare, "cloudflare") = Failed("invalid")
  BY <1>1 DEF Parsed, Point, Normalize
<1>3. CloudflareFromRequest(q) = Failed("invalid")
  BY <1>2, LocationAssumption DEF CloudflareFromRequest, Trusts
<1>4. Inferred(c, q) = Failed("unavailable")
  BY <1>3, Outcomes DEF Inferred
<1> QED
  BY <1>4 DEF EffectivePoint

\* No peer outside the trusted networks chooses the position, a trusted proxy
\* that reports a malformed pair gets none, and its own address is not taken
\* for the device's; for all inputs, configurations and databases.
THEOREM TrustHolds == Spec => []TrustBoundary
<1>1. ASSUME Inv PROVE TrustBoundary
  <2>1. SUFFICES ASSUME NEW r \in Requests
                 PROVE  /\ request[r].pc = "arrived" /\ request[r].input.peer \notin TrustedNets =>
                              \A f \in {p \in Inputs : /\ p.peer = request[r].input.peer
                                                       /\ p.device = request[r].input.device} :
                                  EffectivePoint(conf, f) = EffectivePoint(conf, request[r].input)
                        /\ request[r].pc # "idle" /\ request[r].input.peer \in TrustedNets =>
                              /\ conf.header => request[r].ip \in {Absent, request[r].input.forwarded}
                              /\ /\ conf.cloudflare /\ FromRequest(request[r].input) = NotPresent
                                 /\ Malformed \in {request[r].input.cloudflare.latitude,
                                                  request[r].input.cloudflare.longitude}
                                 => /\ request[r].ip = Absent
                                    /\ request[r].status \in {"none", "location_unavailable"}
    BY DEF TrustBoundary
  <2> DEFINE q == request[r].input
             e == EffectivePoint(conf, q)
  <2>2. Asked(request[r]) /\ request[r] \in Locals
    BY <1>1 DEF Inv, RequestInv
  <2>3. request[r].pc # "idle" => q \in Inputs /\ (request[r].ip = Absent \/ (e.error = "lookup" /\ request[r].ip = e.ip))
    BY <2>2 DEF Asked, Locals
  <2>4. ASSUME q.peer \notin TrustedNets, NEW f \in Inputs, f.peer = q.peer, f.device = q.device
        PROVE  EffectivePoint(conf, f) = EffectivePoint(conf, q)
    BY <2>4, UntrustedIgnored
  <2>5. ASSUME request[r].pc # "idle", q.peer \in TrustedNets, conf.header
        PROVE  request[r].ip \in {Absent, q.forwarded}
    <3>1. CASE request[r].ip = Absent
      BY <3>1
    <3>2. CASE e.error = "lookup" /\ request[r].ip = e.ip
      <4>1. e.ip = ClientIP(conf, q) /\ ClientIP(conf, q) \in Addresses
        BY <2>3, <2>5, <3>2, LookedUp
      <4>2. ClientIP(conf, q) = q.forwarded
        BY <2>5, <4>1, LocationAssumption DEF ClientIP, Trusts
      <4> QED
        BY <3>2, <4>1, <4>2
    <3> QED
      BY <2>3, <2>5, <3>1, <3>2
  <2>6. ASSUME request[r].pc # "idle", q.peer \in TrustedNets, conf.cloudflare, FromRequest(q) = NotPresent,
               Malformed \in {q.cloudflare.latitude, q.cloudflare.longitude}
        PROVE  request[r].ip = Absent /\ request[r].status \in {"none", "location_unavailable"}
    <3>1. e.error = "unavailable"
      BY <2>6, MalformedRefused, Outcomes
    <3>2. Ends(conf, q) = {"unavailable"}
      BY <3>1 DEF Ends
    <3>3. \A endpoint : StatusOf(endpoint, "unavailable") = "location_unavailable"
      BY DEF StatusOf
    <3>4. request[r].status \in {"none", "location_unavailable"}
      BY <2>2, <3>2, <3>3 DEF Asked
    <3> QED
      BY <2>3, <2>6, <3>1, <3>4
  <2> QED
    BY <2>4, <2>5, <2>6
<1> QED
  BY <1>1, Invariant, PTL

\* The inference that is configured fails as operations.md says, wherever the
\* proxies' headers are not the only source.  With Cloudflare's headers alone
\* the resolver is a nil Store and the answer is a 500: see MCCloudflareOnly.
THEOREM InferenceHonest ==
    ASSUME \A c \in Configs : c.cloudflare => c.geoip
    PROVE  Spec => []InferenceFailsAs503
<1> DEFINE Conf == conf \in Configs
<1>1. Spec => []Conf
  <2>1. Init => Conf
    BY DEF Init
  <2>2. Conf /\ [Next]_vars => Conf'
    BY DEF Next, RunStep, PollStep, ReloadStep, Tick, PollReturns, PollStops, Start, Serve, StopServing,
           ShutdownServer, CloseRuntime, CloseStore, AwaitPoll, Exit, Activate, Hang, Remove, Replace, vars,
           Stat, Compare, Open, Install, ClosePrevious, RequestStep, Unconfigured, Enter, ResolveUnlocked,
           Resolve, ReadCity, Finish, Arrive, Answer, Set
  <2> QED
    BY <2>1, <2>2, PTL DEF Spec
<1>2. ASSUME Inv, Conf PROVE InferenceFailsAs503
  <2>1. SUFFICES ASSUME NEW r \in Requests, request[r].pc = "answered",
                        FromRequest(request[r].input) = NotPresent, conf.geoip \/ conf.cloudflare
                 PROVE  request[r].status \in {"ok", "location_unavailable"}
    BY DEF InferenceFailsAs503
  <2> DEFINE q == request[r].input
             e == EffectivePoint(conf, q)
  <2>2. conf.geoip /\ Resolver(conf) = "store"
    BY <1>2, <2>1 DEF Resolver
  <2>3. e = Inferred(conf, q)
    BY <2>1 DEF EffectivePoint
  <2>4. e.error \in {"none", "unavailable", "lookup"}
    BY <2>2, <2>3, Outcomes DEF Inferred
  <2>5. Ends(conf, q) \subseteq {"none", "unavailable"}
    BY <2>2, <2>4 DEF Ends
  <2>6. \A endpoint : /\ StatusOf(endpoint, "unavailable") = "location_unavailable"
                      /\ StatusOf(endpoint, "none") = "ok"
    BY DEF StatusOf
  <2>7. Asked(request[r])
    BY <1>2 DEF Inv, RequestInv
  <2> QED
    BY <2>1, <2>5, <2>6, <2>7 DEF Asked
<1> QED
  BY <1>1, <1>2, Invariant, PTL
=============================================================================
