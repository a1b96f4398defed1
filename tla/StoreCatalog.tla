---------------------------- MODULE StoreCatalog ----------------------------
(***************************************************************************)
(* The saved Store of the core: store_requests.rs (one request at a time,  *)
(* spaced, none in a cool-down), server_vpc_cache.rs (one lookup of the    *)
(* server for all), store_cache.rs (saved pages, refresh epochs, shared    *)
(* fetches, the local index) and the calls of gfn.rs that use them.  Each  *)
(* call runs on a worker of its own; who holds a lock follows from the     *)
(* places the calls have reached.                                          *)
(***************************************************************************)
EXTENDS Naturals, FiniteSets

CONSTANTS
    Calls,       \* the calls of one run of the core
    Paths,       \* the pages of each scope: "first", or "first" and "next"
    MaxCount,    \* games a page is first asked for
    MaxEntries   \* files the cache keeps

Scopes == {p[1] : p \in Paths}   \* accounts with their settings, store_cache_scope

ASSUME PathsAssumption ==
    /\ Paths # {} /\ Paths \subseteq Scopes \X {"first", "next"}
    /\ \A s \in Scopes : <<s, "first">> \in Paths
ASSUME BoundsAssumption == MaxCount \in Nat \ {0} /\ MaxEntries \in Nat

None == "none"
NoLock == <<>>
NoIndex == [scope |-> None, pages |-> <<>>, early |-> FALSE]

VARIABLES
    saved,      \* the files, by their paths: how often its scope was cleared
                \* before the service was asked for what a file holds
    cleared,    \* how often each scope was cleared (history)
    left,       \* the files the last refresh could not remove (history)
    epoch,
    index,      \* the local index: its scope, the pages it has read, and whether
                \* it read them while a refresh was removing them (history)
    vpc,        \* the scope whose server was looked up last
    pacing,     \* a request was sent, and nobody has seen its interval over
    cooling,    \* a 429 came, and nobody has seen its cool-down over
    cancelled,  \* the calls whose token is set
    call

Saved(p) == p \in DOMAIN saved

cache == <<saved, cleared, left, epoch, index>>
schedule == <<pacing, cooling>>
vars == <<cache, vpc, schedule, cancelled, call>>

Idle == [at |-> "idle", kind |-> "list", path |-> CHOOSE p \in Paths : TRUE,
         refresh |-> FALSE, since |-> 0, epoch |-> 0, lock |-> NoLock,
         for |-> "page", count |-> MaxCount, gen |-> 0, early |-> FALSE, loads |-> 0,
         outdated |-> FALSE]

Scope(c) == call[c].path[1]
At(c, places) == call[c].at \in places

\* Where a call holds which lock.
Holds(c, what) ==
    CASE what = "epoch"    -> At(c, {"clear", "remove", "reset"})
      [] what = "index"    -> At(c, {"build", "more", "query"})
      [] what = "server"   -> At(c, {"send", "pace", "flying"}) /\ call[c].for = "server"
      [] what = "schedule" -> At(c, {"pace", "flying"}) /\ call[c].kind # "library"
Free(what) == \A d \in Calls : ~Holds(d, what)

Fetching(c) ==
    /\ At(c, {"server", "send", "pace", "flying", "got", "reset"})
    /\ call[c].kind # "library"
FetchFree(lock) == \A d \in Calls : ~(Fetching(d) /\ call[d].lock = lock)

Goes(c, place) == call' = [call EXCEPT ![c].at = place]

\* A call ends with an error, or is told what was found; of that it is kept
\* whether it was asked for before a clear that was over when the call began,
\* though no refresh has failed to remove it.
Ended == [Idle EXCEPT !.at = "done"]
Fails(c) ==
    /\ call' = [call EXCEPT ![c] = Ended]
    /\ cancelled' = cancelled \ {c}

Told(c, old) ==
    /\ call' = [call EXCEPT ![c] = [Ended EXCEPT !.outdated = old]]
    /\ cancelled' = cancelled \ {c}

Old(c, p, gen) == gen < call[c].since /\ p \notin left

\* load_or_fetch returns a page; store_local_catalog goes on to ask its index.
Returns(c, gen) ==
    IF call[c].kind = "list" THEN Told(c, Old(c, call[c].path, gen))
    ELSE /\ call' = [call EXCEPT ![c] = [Idle EXCEPT !.at = "look", !.kind = "local",
                        !.path = <<Scope(c), "first">>, !.refresh = call[c].refresh,
                        !.since = call[c].since, !.loads = call[c].loads]]
         /\ UNCHANGED cancelled

---------------------------------------------------------------------------
(* The caller *)

\* catalog.store.list, catalog.store.local, and the lookup of the library's server.
Entry(kind) ==
    CASE kind = "list" -> "enter" [] kind = "local" -> "look" [] OTHER -> "server"

Begin(c) ==
    /\ call[c] = Idle
    /\ \E kind \in {"list", "local", "library"}, p \in Paths, refresh \in BOOLEAN :
          /\ kind = "library" => ~refresh
          /\ kind # "list" \/ refresh => p[2] = "first"
          /\ call' = [call EXCEPT ![c] =
                [Idle EXCEPT !.at = Entry(kind), !.kind = kind, !.path = p, !.refresh = refresh,
                             !.since = cleared[p[1]]]]
    /\ UNCHANGED <<cache, vpc, schedule, cancelled>>

Cancel(c) ==
    /\ ~At(c, {"idle", "done"}) /\ c \notin cancelled
    /\ cancelled' = cancelled \cup {c}
    /\ UNCHANGED <<cache, vpc, schedule, call>>

\* The checkpoints.  Only the waits of store_requests::lock are checkpoints too: a
\* call that waits at "enter", "got" or "look" has passed its own already, and may
\* go on although it is cancelled.
Checkpoints == {"enter", "wait", "server", "send", "pace", "got", "look", "build", "more"}
GivesUp(c) ==
    /\ c \in cancelled /\ At(c, Checkpoints)
    /\ Fails(c)
    /\ UNCHANGED <<cache, vpc, schedule>>

GoesOn(c, place) == At(c, {place}) /\ c \notin cancelled

---------------------------------------------------------------------------
(* load_or_fetch *)

\* Mutated: the registry forgets a lock that one call alone holds or waits for.
Retained_Twice(p, e) ==
    LET users == {d \in Calls : /\ At(d, {"wait"}) \/ Fetching(d)
                               /\ call[d].path = p /\ call[d].epoch = e}
    IN  IF Cardinality(users) < 2 THEN {} ELSE {call[d].lock : d \in users}

\* The registry keeps, for a path and an epoch, the lock that some call still
\* holds or waits for; a call that finds none brings its own.
Retained(p, e) ==
    {call[d].lock : d \in {d \in Calls : /\ At(d, {"wait"}) \/ Fetching(d)
                                       /\ call[d].path = p /\ call[d].epoch = e}}

Joins(c, e, since) ==
    \E lock \in IF Retained(call[c].path, e) # {} THEN Retained(call[c].path, e)
                ELSE {<<c, call[c].path>>} :
        call' = [call EXCEPT ![c].at = "wait", ![c].epoch = e, ![c].lock = lock,
                             ![c].since = since]

Clears(c) == call[c].refresh /\ call[c].kind = "list"

Enter(c) ==
    /\ At(c, {"enter"}) /\ Free("epoch")
    /\ IF Clears(c) THEN Goes(c, "clear") /\ UNCHANGED cancelled
       ELSE IF Saved(call[c].path) THEN Returns(c, saved[call[c].path])
       ELSE Joins(c, epoch, call[c].since) /\ UNCHANGED cancelled
    /\ UNCHANGED <<saved, cleared, left, epoch, index, vpc, schedule>>

Clear(c) ==
    /\ At(c, {"clear"}) /\ Free("index")
    /\ index' = NoIndex
    /\ epoch' = epoch + 1
    /\ Goes(c, "remove")
    /\ UNCHANGED <<saved, cleared, left, vpc, schedule, cancelled>>

\* What cannot be removed stays, and nobody is told.
Remove(c) ==
    /\ At(c, {"remove"})
    /\ \E stay \in SUBSET {p \in DOMAIN saved : p[1] = Scope(c)} :
          /\ saved' = [p \in {q \in DOMAIN saved : q[1] # Scope(c)} \cup stay |-> saved[p]]
          /\ left' = {p \in left : p[1] # Scope(c)} \cup stay
    /\ cleared' = [cleared EXCEPT ![Scope(c)] = @ + 1]
    /\ Joins(c, epoch, cleared[Scope(c)] + 1)
    /\ UNCHANGED <<epoch, index, vpc, schedule, cancelled>>

\* Whoever gets the fetch lock looks again: the one before may have saved it.
Locks(c) ==
    /\ GoesOn(c, "wait") /\ FetchFree(call[c].lock)
    /\ IF Saved(call[c].path)
       THEN Returns(c, saved[call[c].path])
       ELSE Goes(c, "server") /\ UNCHANGED cancelled
    /\ UNCHANGED <<cache, vpc, schedule>>

\* The cache keeps MaxEntries files, the last ones by the clock of the disk.
Pruned(files) ==
    LET kept == IF Cardinality(DOMAIN files) <= MaxEntries THEN {DOMAIN files}
                ELSE {k \in SUBSET DOMAIN files : Cardinality(k) = MaxEntries}
    IN  {[p \in k |-> files[p]] : k \in kept}

Written(p, gen) == [q \in DOMAIN saved \cup {p} |-> IF q = p THEN gen ELSE saved[q]]

\* Mutated: a fetch saves its page whatever was cleared meanwhile.
Save_AnyEpoch(c) ==
    /\ At(c, {"got"}) /\ Free("epoch")
    /\ saved' \in {saved} \cup Pruned(Written(call[c].path, call[c].gen))
    /\ Goes(c, "reset")
    /\ UNCHANGED <<cleared, left, epoch, index, vpc, schedule, cancelled>>

\* The page is saved unless the epoch has moved on, or the disk fails.
Save(c) ==
    /\ At(c, {"got"}) /\ Free("epoch")
    /\ IF call[c].epoch = epoch
       THEN /\ saved' \in {saved} \cup Pruned(Written(call[c].path, call[c].gen))
            /\ Goes(c, "reset") /\ UNCHANGED cancelled
       ELSE Returns(c, call[c].gen) /\ UNCHANGED saved
    /\ UNCHANGED <<cleared, left, epoch, index, vpc, schedule>>

ResetIndex(c) ==
    /\ At(c, {"reset"}) /\ Free("index")
    /\ index' = NoIndex
    /\ Returns(c, call[c].gen)
    /\ UNCHANGED <<saved, cleared, left, epoch, vpc, schedule>>

---------------------------------------------------------------------------
(* vpc_id and StoreRequests::send *)

AskPage(c) == call' = [call EXCEPT ![c].at = "send", ![c].for = "page"]

\* What is known expires.  Only the Store's own lookups go through the schedule.
Resolve(c) ==
    /\ GoesOn(c, "server") /\ Free("server")
    /\ \/ /\ vpc = Scope(c)
          /\ IF call[c].kind = "library" THEN Fails(c)
             ELSE AskPage(c) /\ UNCHANGED cancelled
       \/ /\ call' = [call EXCEPT ![c].for = "server",
                           ![c].at = IF call[c].kind = "library" THEN "flying" ELSE "send"]
          /\ UNCHANGED cancelled
    /\ UNCHANGED <<cache, vpc, schedule>>

\* Mutated: the schedule is not locked over the wait and the request.
TakesSchedule_Unlocked(c) ==
    /\ GoesOn(c, "send")
    /\ \/ cooling /\ Fails(c) /\ UNCHANGED cooling
       \/ ~cooling /\ Goes(c, "pace") /\ UNCHANGED <<cooling, cancelled>>
    /\ UNCHANGED <<cache, vpc, pacing>>

\* Time passes: a cool-down is over when the clock says so.
TakesSchedule(c) ==
    /\ GoesOn(c, "send") /\ Free("schedule")
    /\ \/ cooling /\ Fails(c) /\ UNCHANGED cooling
       \/ cooling' = FALSE /\ Goes(c, "pace") /\ UNCHANGED cancelled
    /\ UNCHANGED <<cache, vpc, pacing>>

Pace(c) ==
    /\ GoesOn(c, "pace") /\ pacing /\ pacing' = FALSE
    /\ UNCHANGED <<cache, vpc, cooling, cancelled, call>>

Send(c) ==
    /\ GoesOn(c, "pace") /\ ~pacing
    /\ call' = [call EXCEPT ![c].at = "flying",
                            ![c].gen = IF call[c].for = "page" THEN cleared[Scope(c)] ELSE @]
    /\ UNCHANGED <<cache, vpc, schedule, cancelled>>

\* The service answers, or the request fails at its deadline.
Scheduled(c) == At(c, {"flying"}) /\ call[c].kind # "library"

RateLimited(c) ==
    /\ Scheduled(c)
    /\ pacing' = TRUE /\ cooling' = TRUE
    /\ Fails(c)
    /\ UNCHANGED <<cache, vpc>>

\* Known or not, the server is not looked up again for a while.
ServerAnswered(c) ==
    /\ At(c, {"flying"}) /\ call[c].for = "server"
    /\ pacing' = (Scheduled(c) \/ pacing) /\ UNCHANGED cooling
    /\ IF c \in cancelled THEN Fails(c) /\ UNCHANGED vpc
       ELSE /\ vpc' = Scope(c)
            /\ IF call[c].kind = "library" THEN Fails(c)
               ELSE AskPage(c) /\ UNCHANGED cancelled
    /\ UNCHANGED cache

PageAnswered(c) ==
    /\ At(c, {"flying"}) /\ call[c].for = "page"
    /\ pacing' = TRUE /\ UNCHANGED cooling
    /\ \/ call' = [call EXCEPT ![c].at = "got", ![c].count = MaxCount] /\ UNCHANGED cancelled
       \/ /\ call[c].count > 1   \* too large: a smaller one, from the same cursor
          /\ c \notin cancelled
          /\ call' = [call EXCEPT ![c].at = "send", ![c].count = call[c].count \div 2]
          /\ UNCHANGED cancelled
       \/ Fails(c)
    /\ UNCHANGED <<cache, vpc>>

Answered(c) == RateLimited(c) \/ ServerAnswered(c) \/ PageAnswered(c)

---------------------------------------------------------------------------
(* store_local_catalog *)

\* The index is used as it is, or built from the files, page after page.
Look(c) ==
    /\ At(c, {"look"}) /\ Free("index")
    /\ IF index.scope = Scope(c) /\ ~call[c].refresh
       THEN Goes(c, "query") ELSE Goes(c, "build")
    /\ UNCHANGED <<cache, vpc, schedule, cancelled>>

Indexes(c, pages) ==
    /\ index' = [scope |-> Scope(c), pages |-> pages, early |-> call[c].early]
    /\ call' = [call EXCEPT ![c].at = "query", ![c].gen = 0, ![c].early = FALSE]

\* A refresh is between the index and the files.
Clearing(s) == \E d \in Calls : At(d, {"remove"}) /\ Scope(d) = s
Reads(c, first) ==
    /\ call' = [call EXCEPT ![c].at = "more", ![c].gen = saved[first],
                            ![c].early = Clearing(Scope(c))]
    /\ UNCHANGED index

\* Mutated: the first page is read under the lock that orders the files.
BuildFirst_Ordered(c) ==
    /\ GoesOn(c, "build") /\ Free("epoch")
    /\ LET first == <<Scope(c), "first">> IN
       IF ~Saved(first) THEN Indexes(c, <<>>)
       ELSE Reads(c, first)
    /\ UNCHANGED <<saved, cleared, left, epoch, vpc, schedule, cancelled>>

BuildFirst(c) ==
    /\ GoesOn(c, "build")
    /\ LET first == <<Scope(c), "first">> IN
       IF ~Saved(first) THEN Indexes(c, <<>>)
       ELSE Reads(c, first)
    /\ UNCHANGED <<saved, cleared, left, epoch, vpc, schedule, cancelled>>

BuildNext(c) ==
    /\ GoesOn(c, "more")
    /\ LET next == <<Scope(c), "next">> IN
       Indexes(c, [k \in {"first"} \cup {n \in {"next"} : Saved(next)} |->
                      IF k = "first" THEN call[c].gen ELSE saved[next]])
    /\ UNCHANGED <<saved, cleared, left, epoch, vpc, schedule, cancelled>>

\* A page is loaded for the call: once because nothing is saved, once because
\* nothing was found in what is saved.
Loads(c, key) ==
    /\ call' = [call EXCEPT ![c].at = "enter", ![c].path = <<Scope(c), key>>,
                            ![c].loads = IF key = "first" THEN 1 ELSE 2]
    /\ UNCHANGED cancelled

\* A result has the facets and the totals of the index; its games are read from
\* the files, which can have gone, or hold other games than the index knows.
Matches(c, found) ==
    LET file(k) == <<Scope(c), k>>
        indexed == \A k \in found : Saved(file(k)) /\ saved[file(k)] = index.pages[k]
    IN  \/ ~indexed /\ Fails(c)
        \/ /\ \A k \in found : Saved(file(k))
           /\ Told(c, \/ \E k \in found : Old(c, file(k), saved[file(k)])
                      \/ /\ ~index.early
                         /\ \E k \in DOMAIN index.pages : Old(c, file(k), index.pages[k]))

Incomplete(c) == <<Scope(c), "next">> \in Paths /\ "next" \notin DOMAIN index.pages

\* A result without games may be that of an index that lacks a page.
Query(c) ==
    /\ At(c, {"query"})
    /\ IF DOMAIN index.pages = {}
       THEN IF call[c].loads = 0 THEN Loads(c, "first") ELSE Fails(c)
       ELSE \E found \in SUBSET DOMAIN index.pages :
               IF found = {} /\ Incomplete(c) /\ call[c].loads < 2 THEN Loads(c, "next")
               ELSE Matches(c, found)
    /\ UNCHANGED <<cache, vpc, schedule>>

---------------------------------------------------------------------------
(* The whole *)

Step(c) ==
    \/ GivesUp(c)
    \/ Enter(c) \/ Clear(c) \/ Remove(c) \/ Locks(c) \/ Save(c) \/ ResetIndex(c)
    \/ Resolve(c) \/ TakesSchedule(c) \/ Pace(c) \/ Send(c) \/ Answered(c)
    \/ Look(c) \/ BuildFirst(c) \/ BuildNext(c) \/ Query(c)

Init ==
    /\ saved \in {[p \in files |-> 0] : files \in SUBSET Paths}
    /\ cleared = [s \in Scopes |-> 0] /\ left = {}
    /\ epoch = 0 /\ index = NoIndex
    /\ vpc = None /\ pacing = FALSE /\ cooling = FALSE
    /\ cancelled = {} /\ call = [c \in Calls |-> Idle]

Next == \E c \in Calls : Begin(c) \/ Cancel(c) \/ Step(c)

Spec == Init /\ [][Next]_vars

\* Workers run, and every request has a deadline.
FairSpec == Spec /\ \A c \in Calls : WF_vars(Step(c))

---------------------------------------------------------------------------
(* Properties *)

Places == {"idle", "done", "clear", "remove", "reset", "query", "flying"} \cup Checkpoints

CallType ==
    [at : Places, kind : {"list", "local", "library"}, path : Paths,
     refresh : BOOLEAN, since : Nat, epoch : Nat,
     lock : {NoLock} \cup (Calls \X Paths), for : {"page", "server"},
     count : Nat, gen : Nat, early : BOOLEAN, loads : 0..2, outdated : BOOLEAN]

\* Every variable stays within its type.
TypeOK ==
    /\ DOMAIN saved \subseteq Paths /\ saved \in [DOMAIN saved -> Nat]
    /\ cleared \in [Scopes -> Nat] /\ left \subseteq Paths /\ epoch \in Nat
    /\ index.scope \in Scopes \cup {None} /\ index.early \in BOOLEAN
    /\ index.pages \in [DOMAIN index.pages -> Nat]
    /\ vpc \in Scopes \cup {None} /\ pacing \in BOOLEAN /\ cooling \in BOOLEAN
    /\ cancelled \subseteq Calls
    /\ call \in [Calls -> CallType]

\* A refresh is final, whatever fetches of other epochs, failing writes and
\* removals come between (load_or_fetch, local_query).  What was asked for before
\* it is in a file only where the refresh could not remove that file, and is told
\* to a call that began after it only from such a file or an index with its page,
\* or from an index that read the files while the refresh was removing them.
RefreshIsFinal ==
    /\ \A p \in DOMAIN saved : saved[p] < cleared[p[1]] => p \in left
    /\ \A c \in Calls : ~call[c].outdated

\* A request of the Store goes out while no other is on its way, not within the
\* interval after the last, and never in a cool-down.
RequestsArePaced ==
    [][\A c \in Calls : Scheduled(c)' /\ ~Scheduled(c) =>
          ~pacing /\ ~cooling /\ \A d \in Calls : ~Scheduled(d)]_vars

\* Calls that miss the same page in the same epoch do not fetch it together.
FetchesAreShared ==
    \A c, d \in Calls :
        /\ Fetching(c) /\ Fetching(d)
        /\ call[c].path = call[d].path /\ call[c].epoch = call[d].epoch
        => c = d

\* Every call ends: the locks are taken in an order that never closes a circle,
\* and a wait for the network, the interval or a lock is over some time.  (No
\* call begins twice, so there are times at which all that have begun are done.)
CallsEnd == []<>(\A c \in Calls : At(c, {"idle", "done"}))
=============================================================================
