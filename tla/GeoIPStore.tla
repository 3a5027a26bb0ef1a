----------------------------- MODULE GeoIPStore -----------------------------
(***************************************************************************)
(* The life of the GeoIP database (internal/providers/geoip, type Store)   *)
(* beside the requests that read it, inside the life of the process: Run   *)
(* of internal/app starts the runtime manager, serves, and shuts down.     *)
(*                                                                         *)
(* The database file is replaced from outside; a file is its number in the *)
(* order of the replacements (SameFile, size and time tell them apart) and *)
(* its kind.  A reader is an opened database.  Two RWMutexes are involved: *)
(* a request holds RuntimeManager.mu from Enter to Finish, and Store.mu    *)
(* while it reads; a waiting writer keeps new readers out.                 *)
(***************************************************************************)
EXTENDS LocationSource

CONSTANTS
    Requests,           \* connections of devices
    Inputs,             \* the requests they send
    Configs,            \* the configurations the process may have
    Readers,            \* geoip2.Reader objects
    NoReader,
    City(_, _),         \* external: the record of an address in a file, or Absent
    MaxUpdates          \* bound on the replacements of the file

ASSUME StoreAssumption ==
    /\ NoReader \notin Readers
    /\ \E a, b, c \in Readers : a # b /\ b # c /\ a # c    \* as many as can be open
    /\ \A q \in Inputs : q.peer \in Addresses \cup {Malformed}
    /\ Configs \subseteq Configuration
    /\ MaxUpdates \in Nat

VARIABLES
    conf,       \* the configuration, which never changes
    file,       \* the file at the configured path
    updates,    \* replacements so far
    open,       \* readers that have not been closed
    content,    \* the file each reader was opened from
    store,      \* reader, loaded, polling and closed of the Store
    reload,     \* local state of reloadIfChanged, in Start and in poll
    poller,     \* the poll goroutine
    hung,       \* the poll goroutine is stuck in file I/O for good
    main,       \* where App.Run is
    taken,      \* the reader Close took out of the store
    up,         \* RuntimeManager.current is not nil
    request     \* local state of each connection

vars == <<conf, file, updates, open, content, store, reload, poller, hung, main, taken,
          up, request>>

files == <<file, updates>>
database == <<open, content, store, reload, poller, hung>>

Kinds == {"city", "other", "broken"}
NoFile == [id |-> 0, kind |-> "none"]

Threads == {"start", "poll"}
NotReloading == [pc |-> "idle", info |-> 0, reader |-> NoReader]

NoRequest == [pc |-> "idle", input |-> Absent, ip |-> Absent, reader |-> NoReader,
              status |-> "none"]

\* New: the service is set up or not.
Init ==
    /\ conf \in Configs
    /\ file = NoFile /\ updates = 0
    /\ open = {} /\ content = [r \in Readers |-> 0]
    /\ store = [reader |-> NoReader, loaded |-> 0, polling |-> FALSE, closed |-> FALSE]
    /\ reload = [t \in Threads |-> NotReloading]
    /\ poller = "off" /\ hung = FALSE
    /\ main = "new" /\ taken = NoReader
    /\ up \in BOOLEAN
    /\ request = [r \in Requests |-> NoRequest]

-----------------------------------------------------------------------------
(* The locks.                                                              *)

\* Requests that hold RuntimeManager.mu for reading.
RuntimeReaders == {r \in Requests : request[r].pc \in {"resolve", "reading", "answered"}}

\* Mutant: the read lock is given back before the record is read.
StoreReadersNone == {}

\* Requests that hold Store.mu for reading.
StoreReaders == {r \in Requests : request[r].pc = "reading"}

\* A goroutine waits in Lock of Store.mu, which keeps new readers out.
StoreWriterWaits == main = "geoip" \/ \E t \in Threads : reload[t].pc = "install"

Running == main \notin {"new", "exited"}

-----------------------------------------------------------------------------
(* The file, which geoipupdate replaces atomically.  External.             *)

Replace(k) ==
    /\ updates < MaxUpdates
    /\ file' = [id |-> updates + 1, kind |-> k] /\ updates' = updates + 1
    /\ UNCHANGED <<conf, database, main, taken, up, request>>

Remove ==
    /\ updates < MaxUpdates /\ file # NoFile
    /\ file' = NoFile /\ updates' = updates + 1
    /\ UNCHANGED <<conf, database, main, taken, up, request>>

-----------------------------------------------------------------------------
(* reloadIfChanged, run by t.                                              *)

Reload(t, local) == reload' = [reload EXCEPT ![t] = local]
ReloadEnds(t) == Reload(t, NotReloading)

\* os.Stat: without a file there is nothing to do.
Stat(t) ==
    /\ Running /\ reload[t].pc = "stat"
    /\ IF file = NoFile THEN ReloadEnds(t)
       ELSE Reload(t, [reload[t] EXCEPT !.pc = "compare", !.info = file.id])
    /\ UNCHANGED <<conf, files, open, content, store, poller, hung, main, taken, up, request>>

\* Under RLock: is this the file that is loaded?
Compare(t) ==
    /\ Running /\ reload[t].pc = "compare" /\ ~StoreWriterWaits
    /\ IF store.reader # NoReader /\ store.loaded = reload[t].info THEN ReloadEnds(t)
       ELSE Reload(t, [reload[t] EXCEPT !.pc = "open"])
    /\ UNCHANGED <<conf, files, open, content, store, poller, hung, main, taken, up, request>>

\* openReader opens what is at the path by now.  A file that is gone, broken
\* or no City database is closed again and the previous one stays.
Open(t) ==
    /\ Running /\ reload[t].pc = "open"
    /\ t = "poll" => ~hung
    /\ IF file.kind # "city" THEN ReloadEnds(t) /\ UNCHANGED <<open, content>>
       ELSE LET r == CHOOSE r \in Readers : r \notin open
            IN  /\ open' = open \cup {r}
                /\ content' = [content EXCEPT ![r] = file.id]
                /\ Reload(t, [reload[t] EXCEPT !.pc = "install", !.reader = r])
    /\ UNCHANGED <<conf, files, store, poller, hung, main, taken, up, request>>

\* The file system does not answer the poll goroutine any more.
Hang ==
    /\ Running /\ reload["poll"].pc = "open" /\ ~hung
    /\ hung' = TRUE
    /\ UNCHANGED <<conf, files, open, content, store, reload, poller, main, taken, up, request>>

\* Mutant: the metadata is read again when the database is installed.
InstallRestat(t) ==
    /\ Running /\ reload[t].pc = "install" /\ StoreReaders = {}
    /\ IF store.closed
       THEN /\ open' = open \ {reload[t].reader} /\ ReloadEnds(t)
            /\ UNCHANGED store
       ELSE /\ store' = [store EXCEPT !.reader = reload[t].reader, !.loaded = file.id]
            /\ Reload(t, [reload[t] EXCEPT !.pc = "previous", !.reader = store.reader])
            /\ UNCHANGED open
    /\ UNCHANGED <<conf, files, content, poller, hung, main, taken, up, request>>

\* Under Lock: the new reader replaces the loaded one, unless the store was
\* closed meanwhile.
Install(t) ==
    /\ Running /\ reload[t].pc = "install" /\ StoreReaders = {}
    /\ IF store.closed
       THEN /\ open' = open \ {reload[t].reader} /\ ReloadEnds(t)
            /\ UNCHANGED store
       ELSE /\ store' = [store EXCEPT !.reader = reload[t].reader, !.loaded = reload[t].info]
            /\ Reload(t, [reload[t] EXCEPT !.pc = "previous", !.reader = store.reader])
            /\ UNCHANGED open
    /\ UNCHANGED <<conf, files, content, poller, hung, main, taken, up, request>>

\* previous.Close(), after the lock was released.
ClosePrevious(t) ==
    /\ Running /\ reload[t].pc = "previous"
    /\ open' = open \ {reload[t].reader}
    /\ ReloadEnds(t)
    /\ UNCHANGED <<conf, files, content, store, poller, hung, main, taken, up, request>>

ReloadStep(t) == Stat(t) \/ Compare(t) \/ Open(t) \/ Install(t) \/ ClosePrevious(t)

-----------------------------------------------------------------------------
(* poll.                                                                   *)

Tick ==
    /\ Running /\ poller = "waiting"
    /\ poller' = "reloading" /\ Reload("poll", [NotReloading EXCEPT !.pc = "stat"])
    /\ UNCHANGED <<conf, files, open, content, store, hung, main, taken, up, request>>

\* After a reload, and while it waits, the goroutine looks at done.
PollReturns ==
    /\ Running /\ poller = "reloading" /\ reload["poll"].pc = "idle"
    /\ poller' = IF store.closed THEN "stopped" ELSE "waiting"
    /\ UNCHANGED <<conf, files, open, content, store, reload, hung, main, taken, up, request>>

PollStops ==
    /\ Running /\ poller = "waiting" /\ store.closed
    /\ poller' = "stopped"
    /\ UNCHANGED <<conf, files, open, content, store, reload, hung, main, taken, up, request>>

-----------------------------------------------------------------------------
(* Run.                                                                    *)

\* Mutant: poll is started before the first load.
StartPollingFirst ==
    /\ main = "new"
    /\ main' = "loading" /\ Reload("start", [NotReloading EXCEPT !.pc = "stat"])
    /\ store' = [store EXCEPT !.polling = TRUE] /\ poller' = "waiting"
    /\ UNCHANGED <<conf, files, open, content, hung, taken, up, request>>

\* RuntimeManager.Start and Store.Start: the first load.
Start ==
    /\ main = "new"
    /\ IF conf.geoip
       THEN main' = "loading" /\ Reload("start", [NotReloading EXCEPT !.pc = "stat"])
       ELSE main' = "serving" /\ UNCHANGED reload
    /\ UNCHANGED <<conf, files, open, content, store, poller, hung, taken, up, request>>

\* Store.Start: go s.poll(); Run: ListenAndServe.
Serve ==
    /\ main = "loading" /\ reload["start"].pc = "idle"
    /\ main' = "serving"
    /\ store' = [store EXCEPT !.polling = TRUE] /\ poller' = "waiting"
    /\ UNCHANGED <<conf, files, open, content, reload, hung, taken, up, request>>

\* The context ends or the listener fails.
StopServing ==
    /\ main = "serving" /\ main' = "shutdown"
    /\ UNCHANGED <<conf, files, database, taken, up, request>>

\* server.Shutdown returns: all requests have ended, or its time is over.
ShutdownServer ==
    /\ main = "shutdown" /\ main' = "wlock"
    /\ UNCHANGED <<conf, files, database, taken, up, request>>

\* RuntimeManager.Close, under Lock.
CloseRuntime ==
    /\ main = "wlock" /\ RuntimeReaders = {}
    /\ up' = FALSE
    /\ main' = IF conf.geoip THEN "geoip" ELSE "service"
    /\ UNCHANGED <<conf, files, database, taken, request>>

\* Store.Close, under Lock; done is closed with it.
CloseStore ==
    /\ main = "geoip" /\ StoreReaders = {}
    /\ store' = [store EXCEPT !.closed = TRUE, !.reader = NoReader]
    /\ taken' = store.reader
    /\ main' = "await"
    /\ UNCHANGED <<conf, files, open, content, reload, poller, hung, up, request>>

\* Mutant: Close waits for the goroutine as long as it takes.
AwaitPollForEver ==
    /\ main = "await" /\ poller = "stopped"
    /\ open' = open \ {taken} /\ taken' = NoReader
    /\ main' = "service"
    /\ UNCHANGED <<conf, files, content, store, reload, poller, hung, up, request>>

\* The goroutine has stopped, or closeWaitTimeout is over; reader.Close().
\* Run closes a Store only after Start, so that it is polling.
AwaitPoll ==
    /\ main = "await"
    /\ open' = open \ {taken} /\ taken' = NoReader
    /\ main' = "service"
    /\ UNCHANGED <<conf, files, content, store, reload, poller, hung, up, request>>

\* service.Close, the state lock is released, and the process ends.
Exit ==
    /\ main = "service" /\ main' = "exited"
    /\ UNCHANGED <<conf, files, database, taken, up, request>>

\* A management handler activates a runtime: the setup, or a change that
\* outlived Shutdown.
Activate ==
    /\ Running /\ ~up /\ RuntimeReaders = {}
    /\ up' = TRUE
    /\ UNCHANGED <<conf, files, database, main, taken, request>>

-----------------------------------------------------------------------------
(* A request of a device whose token was accepted.                         *)

Set(r, local) ==
    /\ Running
    /\ request' = [request EXCEPT ![r] = local]
    /\ UNCHANGED <<conf, files, database, main, taken, up>>

Answer(r, error) ==
    Set(r, [request[r] EXCEPT !.pc = "answered", !.reader = NoReader,
                              !.status = StatusOf(request[r].input.endpoint, error)])

Arrive(r, q) ==
    /\ main = "serving" /\ request[r].pc = "idle"
    /\ Set(r, [NoRequest EXCEPT !.pc = "arrived", !.input = q])

\* ServeHTTP without a runtime.
Unconfigured(r) ==
    /\ request[r].pc = "arrived" /\ main # "wlock" /\ ~up
    /\ Set(r, NoRequest)

\* ServeHTTP takes the read lock; EffectivePoint up to the call of Resolve.
Enter(r) ==
    LET e == EffectivePoint(conf, request[r].input)
    IN  /\ request[r].pc = "arrived" /\ main # "wlock" /\ up
        /\ IF e.error = "lookup" THEN Set(r, [request[r] EXCEPT !.pc = "resolve", !.ip = e.ip])
           ELSE Answer(r, e.error)

\* Resolve before its lock: the address is not public, or the Store is nil
\* and its mutex cannot be reached.
ResolveUnlocked(r) ==
    /\ request[r].pc = "resolve"
    /\ request[r].ip \notin Public \/ Resolver(conf) # "store"
    /\ Answer(r, IF request[r].ip \notin Public THEN "unavailable" ELSE "panic")

\* Mutant: a store without a reader is used.
ResolveUnchecked(r) ==
    /\ request[r].pc = "resolve" /\ request[r].ip \in Public /\ Resolver(conf) = "store"
    /\ ~StoreWriterWaits
    /\ IF store.reader = NoReader THEN Answer(r, "panic")
       ELSE Set(r, [request[r] EXCEPT !.pc = "reading", !.reader = store.reader])

\* Resolve takes the read lock.
Resolve(r) ==
    /\ request[r].pc = "resolve" /\ request[r].ip \in Public /\ Resolver(conf) = "store"
    /\ ~StoreWriterWaits
    /\ IF store.reader = NoReader THEN Answer(r, "unavailable")
       ELSE Set(r, [request[r] EXCEPT !.pc = "reading", !.reader = store.reader])

\* Resolve: reader.City, and the lock is released.
ReadCity(r) ==
    /\ request[r].pc = "reading"
    /\ Answer(r, PointOf(City(content[request[r].reader], request[r].ip)).error)

\* The handler returns, and ServeHTTP releases its lock.  A panic was turned
\* into a status by RequestContext.
Finish(r) == request[r].pc = "answered" /\ Set(r, NoRequest)

RequestStep(r) == Unconfigured(r) \/ Enter(r) \/ ResolveUnlocked(r) \/ Resolve(r) \/ ReadCity(r) \/ Finish(r)

-----------------------------------------------------------------------------
RunStep == Start \/ Serve \/ ShutdownServer \/ CloseRuntime \/ CloseStore \/ AwaitPoll \/ Exit

PollStep == Tick \/ PollReturns \/ PollStops \/ ReloadStep("poll")

Next ==
    \/ RunStep \/ PollStep \/ ReloadStep("start") \/ StopServing \/ Activate \/ Hang
    \/ Remove \/ \E k \in Kinds : Replace(k)
    \/ \E r \in Requests : RequestStep(r) \/ \E q \in Inputs : Arrive(r, q)

Spec == Init /\ [][Next]_vars

\* Goroutines are scheduled, the ticker fires, timeouts end, and a request
\* ends.  The poll goroutine may hang in I/O (Hang); nothing is assumed of
\* clients, of management and of the file.
Fairness ==
    /\ WF_vars(RunStep) /\ WF_vars(ReloadStep("start")) /\ WF_vars(PollStep)
    /\ \A r \in Requests : WF_vars(RequestStep(r))

FairSpec == Spec /\ Fairness

-----------------------------------------------------------------------------
(* Properties.                                                             *)

\* The readers somebody still has to close.
Owned == ({store.reader, taken} \cup {reload[t].reader : t \in Threads}) \ {NoReader}

\* No request reads a database that was closed under it, and every database
\* that was opened is closed or still held by the store, by a reload or by
\* Close: a store closed in the middle of a reload leaks none, and once the
\* poll has stopped and Close has returned, all of them are closed.
ReadersAccounted ==
    /\ \A r \in Requests : request[r].pc = "reading" => request[r].reader \in open
    /\ open = Owned
    /\ main = "service" /\ poller = "stopped" => open = {}

\* Until Close the store never loses its database: a file that is removed,
\* broken or of another type leaves the previous one in place, and no reload
\* puts an older file in the place of a newer one.
ServesOnward ==
    [][store.reader # NoReader =>
          \/ main = "geoip" /\ store'.closed
          \/ store'.reader # NoReader /\ content'[store'.reader] >= content[store.reader]]_vars

\* architecture.md: the store notices a replaced file and loads it, although
\* the file may change between os.Stat and the opening.
FreshEventually ==
    \A n \in 1..MaxUpdates :
        (main = "serving" /\ conf.geoip /\ file = [id |-> n, kind |-> "city"])
           ~> \/ store.reader # NoReader /\ content[store.reader] = n
              \/ file.id # n \/ hung \/ main # "serving"

\* Run returns once it was told to: neither requests, nor a reload, nor a poll
\* that hangs in file I/O keep the process.
ShutdownEnds == (main = "shutdown") ~> (main = "exited")

\* A peer outside the trusted networks cannot choose the position: whatever
\* it puts in the proxies' headers, the outcome is the same.  A trusted proxy
\* that reports a malformed pair gets no position at all, and its own address
\* is never taken for the device's.
TrustBoundary ==
    \A r \in Requests : LET q == request[r].input IN
        /\ request[r].pc = "arrived" /\ q.peer \notin TrustedNets =>
              \A f \in {p \in Inputs : p.peer = q.peer /\ p.device = q.device} :
                  EffectivePoint(conf, f) = EffectivePoint(conf, q)
        /\ request[r].pc # "idle" /\ q.peer \in TrustedNets =>
              /\ conf.header => request[r].ip \in {Absent, q.forwarded}
              /\ /\ conf.cloudflare /\ FromRequest(q) = NotPresent
                 /\ Malformed \in {q.cloudflare.latitude, q.cloudflare.longitude}
                 => request[r].ip = Absent /\ request[r].status \in {"none", "location_unavailable"}

\* operations.md: without device headers, when the inference that is
\* configured finds no position, the answer is 503 location_unavailable.
InferenceFailsAs503 ==
    \A r \in Requests :
        /\ request[r].pc = "answered"
        /\ FromRequest(request[r].input) = NotPresent
        /\ conf.geoip \/ conf.cloudflare
        => request[r].status \in {"ok", "location_unavailable"}
=============================================================================
