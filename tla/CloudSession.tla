---------------------------- MODULE CloudSession ----------------------------
(***************************************************************************)
(* The session the core holds on CloudMatch (cloudmatch.rs).  Every call   *)
(* reads the held session, asks the service, and stores what it is told:   *)
(* three steps, with other workers between them and no lock across them.   *)
(* The service is external: it has at most one session of the account.     *)
(* Endpoints, profiles, discovery and the conflict handoff are left out.   *)
(***************************************************************************)
EXTENDS CoreWorkers

CONSTANT MaxSessions   \* bound on the sessions ever created
ASSUME SessionAssumption == MaxSessions \in Nat

VARIABLES
    active,   \* id of CloudMatchService::active, 0 when it is None
    asking,   \* the call each worker is in: what, of which session, how far
    live,     \* sessions the service has
    created,  \* how many it has ever created
    held      \* the session last created or claimed that nobody asked to stop

session == <<active, asking, live, created, held>>

Sessions == 1..MaxSessions
NoCall == [what |-> "none", id |-> 0, at |-> "none"]
Gated == {"create", "claim", "poll"}
Call(w, what, id) == asking' = [asking EXCEPT ![w] = [what |-> what, id |-> id, at |-> "asked"]]
Is(w, what, at) == asking[w].what \in what /\ asking[w].at = at
Return(w) == asking' = [asking EXCEPT ![w] = NoCall]
Answered(w, id) == asking' = [asking EXCEPT ![w].id = id, ![w].at = "answered"]

\* The ids a shell can name: those it has been told of.
Named == 1..created

AskCreate(w) == Call(w, "create", 0) /\ UNCHANGED <<active, live, created, held>>
AskClaim(w) ==
    /\ \E id \in Named : Call(w, "claim", id)
    /\ UNCHANGED <<active, live, created, held>>
AskPoll(w) ==
    /\ \E id \in Named : Call(w, "poll", id)
    /\ UNCHANGED <<active, live, created, held>>
\* report_ad needs the endpoint of a held session.
AskReport(w) ==
    /\ active # 0
    /\ \E id \in Named : Call(w, "report", id)
    /\ UNCHANGED <<active, live, created, held>>
AskStop(w) ==
    /\ \E id \in Named : Call(w, "stop", id) /\ held' = IF held = id THEN 0 ELSE held
    /\ UNCHANGED <<active, live, created>>

\* The service creates a session only when it has none; the answer may be lost.
Creates(w) ==
    /\ Is(w, {"create"}, "asked")
    /\ \/ /\ live = {} /\ created < MaxSessions
          /\ created' = created + 1
          /\ live' = {created'}
          /\ Answered(w, created') \/ Return(w)
       \/ Return(w) /\ UNCHANGED <<created, live>>
    /\ UNCHANGED <<active, held>>

\* get_session, the RESUME of a claim, or the report of an advertisement.
Finds(w) ==
    /\ Is(w, {"claim", "poll", "report"}, "asked")
    /\ \/ asking[w].id \in live /\ Answered(w, asking[w].id)
       \/ Return(w)
    /\ UNCHANGED <<active, live, created, held>>

\* The deletion takes effect or not, and succeeds also for a session that is gone.
Deletes(w) ==
    /\ Is(w, {"stop"}, "asked")
    /\ \/ live' = live \ {asking[w].id} /\ (Answered(w, asking[w].id) \/ Return(w))
       \/ Return(w) /\ UNCHANGED live
    /\ UNCHANGED <<active, created, held>>

\* store_active
Stores(w) ==
    /\ Is(w, {"create", "claim", "poll", "report"}, "answered")
    /\ active' = asking[w].id
    /\ held' = IF asking[w].what \in {"create", "claim"} THEN asking[w].id ELSE held
    /\ Return(w)
    /\ UNCHANGED <<live, created>>

\* The end of stop(), whichever session is held by now.
Forgets(w) ==
    /\ Is(w, {"stop"}, "answered")
    /\ active' = 0
    /\ Return(w)
    /\ UNCHANGED <<live, created, held>>

Proceed(w) == Creates(w) \/ Finds(w) \/ Deletes(w) \/ Stores(w) \/ Forgets(w)

\* The service ends a session by itself.
ServiceEnds ==
    /\ live # {} /\ live' = {}
    /\ UNCHANGED <<active, asking, created, held>>

SessionRestarts ==
    /\ active' = 0 /\ held' = 0
    /\ asking' = [w \in Workers |-> NoCall]
    /\ UNCHANGED <<live, created>>

SessionTypeOK ==
    /\ active \in Sessions \cup {0} /\ held \in Sessions \cup {0}
    /\ asking \in [Workers -> [what : {"none", "create", "claim", "poll", "report", "stop"},
                               id : Sessions \cup {0}, at : {"none", "asked", "answered"}]]
    /\ live \subseteq Sessions
    /\ created \in 0..MaxSessions

SessionInit ==
    /\ active = 0 /\ held = 0
    /\ asking = [w \in Workers |-> NoCall]
    /\ live = {} /\ created = 0
=============================================================================
