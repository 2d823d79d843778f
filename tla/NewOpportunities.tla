-------------------------- MODULE NewOpportunities --------------------------
(***************************************************************************)
(* "What's new": GET /opportunities/new (list_new_opportunities in         *)
(* src/api/app/main.py) lists what was created after the tenant's last     *)
(* view and moves the checkpoint.  created_at and the checkpoint are the   *)
(* now() of their transaction: the time it started, not the time at which  *)
(* its rows can be seen.                                                   *)
(***************************************************************************)
EXTENDS Naturals

CONSTANTS
    Finds,      \* opportunities, each inserted by a match of its own
    Views,      \* requests that list what is new
    MaxTime     \* bound: transactions that start

ASSUME MaxTimeIsNat == MaxTime \in Nat

VARIABLES
    now,        \* the clock: one tick per transaction
    lastViewed, \* tenants.opportunities_last_viewed_at, 0 for null
    found,      \* found[f]: created_at and whether its match has committed
    view,       \* view[v]: a request in flight
    listed,     \* history: opportunities some view has listed
    straddled   \* history: matches open when some view's transaction started

newVars == <<now, lastViewed, found, view, listed, straddled>>

Found == [state : {"none", "open", "stored"}, created : 0..MaxTime]
View == [phase : {"off", "started", "read", "listed"}, start : 0..MaxTime, since : 0..MaxTime]
Off == [phase |-> "off", start |-> 0, since |-> 0]

NewInit ==
    /\ now = 0 /\ lastViewed = 0
    /\ found = [f \in Finds |-> [state |-> "none", created |-> 0]]
    /\ view = [v \in Views |-> Off]
    /\ listed = {} /\ straddled = {}

\* match_programmes_for_product begins; its row is stored when it commits.
MatchBegins(f) ==
    /\ found[f].state = "none" /\ now < MaxTime
    /\ now' = now + 1
    /\ found' = [found EXCEPT ![f] = [state |-> "open", created |-> now + 1]]
    /\ UNCHANGED <<lastViewed, view, listed, straddled>>

MatchCommits(f) ==
    /\ found[f].state = "open"
    /\ found' = [found EXCEPT ![f].state = "stored"]
    /\ UNCHANGED <<now, lastViewed, view, listed, straddled>>

ViewBegins(v) ==
    /\ view[v].phase = "off" /\ now < MaxTime
    /\ now' = now + 1
    /\ view' = [view EXCEPT ![v] = [phase |-> "started", start |-> now + 1, since |-> 0]]
    /\ straddled' = straddled \cup {f \in Finds : found[f].state = "open"}
    /\ UNCHANGED <<lastViewed, found, listed>>

ViewReadsCheckpoint(v) ==
    /\ view[v].phase = "started"
    /\ view' = [view EXCEPT ![v].phase = "read", ![v].since = lastViewed]
    /\ UNCHANGED <<now, lastViewed, found, listed, straddled>>

ViewLists(v) ==
    /\ view[v].phase = "read"
    /\ view' = [view EXCEPT ![v].phase = "listed"]
    /\ listed' = listed \cup
           {f \in Finds : found[f].state = "stored" /\ found[f].created > view[v].since}
    /\ UNCHANGED <<now, lastViewed, found, straddled>>

\* Mutant: the checkpoint is the clock at the update.
ViewMarksClock(v) ==
    /\ view[v].phase = "listed"
    /\ lastViewed' = now
    /\ view' = [view EXCEPT ![v] = Off]
    /\ UNCHANGED <<now, found, listed, straddled>>

\* mark_seen: set opportunities_last_viewed_at = now().  An overlapping view
\* that started earlier may set it back, which lists some rows twice.
ViewMarks(v) ==
    /\ view[v].phase = "listed"
    /\ lastViewed' = view[v].start
    /\ view' = [view EXCEPT ![v] = Off]
    /\ UNCHANGED <<now, found, listed, straddled>>

\* mark_seen = false, a lost connection
ViewEnds(v) ==
    /\ view[v].phase # "off"
    /\ view' = [view EXCEPT ![v] = Off]
    /\ UNCHANGED <<now, lastViewed, found, listed, straddled>>

NewNext ==
    \/ \E f \in Finds : MatchBegins(f) \/ MatchCommits(f)
    \/ \E v \in Views :
        \/ ViewBegins(v) \/ ViewReadsCheckpoint(v) \/ ViewLists(v)
        \/ ViewMarks(v) \/ ViewEnds(v)

NewSpec == NewInit /\ [][NewNext]_newVars

-----------------------------------------------------------------------------
NewTypeOK ==
    /\ now \in 0..MaxTime /\ lastViewed \in 0..now
    /\ found \in [Finds -> Found]
    /\ view \in [Views -> View]
    /\ listed \in SUBSET Finds /\ straddled \in SUBSET Finds

\* An opportunity the checkpoint has moved past was listed to the tenant,
\* unless its match had been running when a view started: one that begins
\* while a view is being served is never lost between the list and the mark.
PassedIsListed ==
    \A f \in Finds :
        found[f].state = "stored" /\ found[f].created <= lastViewed
        => f \in listed \/ f \in straddled
=============================================================================
