---------------------------- MODULE Authorization ----------------------------
(***************************************************************************)
(* The permission decisions of one user.  They come from the user's active *)
(* memberships, are cached under a key that carries a global version, and  *)
(* every change of memberships or roles that sends a signal moves the      *)
(* version on.  The signal is sent inside the transaction of the change,   *)
(* so the version moves before the change is visible.                      *)
(***************************************************************************)
EXTENDS Integers, FiniteSets

CONSTANTS
    Roles,
    Requests,       \* requests that ask for a decision
    MaxVersion,     \* bound on the version counter
    MaxEdits        \* bound on the edits of memberships

NoVersion == 0
NoEntry == {"none"}

AuthorizationAssumption ==
    /\ IsFiniteSet(Roles) /\ "none" \notin Roles
    /\ MaxVersion \in Nat \ {0} /\ MaxEdits \in Nat

VARIABLES
    member,         \* roles of the user's active memberships, as committed
    version,        \* authz:version, NoVersion when the cache does not hold it
    entry,          \* the grants cached under each version, or NoEntry
    request,        \* where each request is, the version it read and the grants it loaded
    edit,           \* the form that is being saved: roles still to bind
    edits

vars == <<member, version, entry, request, edit, edits>>

Idle   == [pc |-> "idle", key |-> NoVersion, grants |-> {}]
NoEdit == [pc |-> "idle", bind |-> {}, role |-> "none"]

Init ==
    /\ member = Roles
    /\ version = NoVersion
    /\ entry = [v \in 1..MaxVersion |-> NoEntry]
    /\ request = [r \in Requests |-> Idle]
    /\ edit = NoEdit
    /\ edits = 0

---------------------------------------------------------------------------
(* _get_grants: the key is built first, and the rest acts on that key.       *)

ReadVersion(r) ==
    /\ request[r].pc = "idle"
    /\ version' = IF version = NoVersion THEN 1 ELSE version
    /\ request' = [request EXCEPT ![r] = [Idle EXCEPT !.pc = "lookup", !.key = version']]
    /\ UNCHANGED <<member, entry, edit, edits>>

Lookup(r) ==
    /\ request[r].pc = "lookup"
    /\ request' = [request EXCEPT ![r] =
                      IF entry[@.key] # NoEntry THEN Idle
                      ELSE [@ EXCEPT !.pc = "store", !.grants = member]]
    /\ UNCHANGED <<member, version, entry, edit, edits>>

Store(r) ==
    /\ request[r].pc = "store"
    /\ entry' = [entry EXCEPT ![request[r].key] = request[r].grants]
    /\ request' = [request EXCEPT ![r] = Idle]
    /\ UNCHANGED <<member, version, edit, edits>>

(* Entries of the version in use that never expire.                          *)
ExpireOld(v) ==
    /\ entry[v] # NoEntry /\ v # version
    /\ entry' = [entry EXCEPT ![v] = NoEntry]
    /\ UNCHANGED <<member, version, request, edit, edits>>

(* Entries live ten minutes.                                                 *)
Expire(v) ==
    /\ entry[v] # NoEntry
    /\ entry' = [entry EXCEPT ![v] = NoEntry]
    /\ UNCHANGED <<member, version, request, edit, edits>>

---------------------------------------------------------------------------
Bump == version' = IF version = NoVersion THEN 1 ELSE version + 1

(* The employee form: every membership is deactivated by an UPDATE, which    *)
(* sends no signal, and the ticked roles are bound one by one.               *)
SaveEmployee ==
    /\ edit = NoEdit /\ edits < MaxEdits
    /\ \E ticked \in SUBSET Roles :
          edit' = IF ticked = {} THEN NoEdit
                  ELSE [NoEdit EXCEPT !.pc = "bind", !.bind = ticked]
    /\ member' = {}
    /\ edits' = edits + 1
    /\ UNCHANGED <<version, entry, request>>

BindRole(role) ==
    /\ edit.pc = "bind" /\ role \in edit.bind /\ version < MaxVersion
    /\ Bump
    /\ edit' = [edit EXCEPT !.pc = "commit", !.role = role]
    /\ UNCHANGED <<member, entry, request, edits>>

CommitRole ==
    /\ edit.pc = "commit"
    /\ member' = member \union {edit.role}
    /\ LET rest == edit.bind \ {edit.role}
       IN  edit' = IF rest = {} THEN NoEdit
                   ELSE [NoEdit EXCEPT !.pc = "bind", !.bind = rest]
    /\ UNCHANGED <<version, entry, request, edits>>

(* Clearing the feature flags' cache without naming keys clears everything   *)
(* there is, the version too.                                                *)
ClearCache ==
    /\ version # NoVersion /\ edits < MaxEdits
    /\ version' = NoVersion
    /\ entry' = [v \in 1..MaxVersion |-> NoEntry]
    /\ edits' = edits + 1
    /\ UNCHANGED <<member, request, edit>>

RequestStep(r) == ReadVersion(r) \/ Lookup(r) \/ Store(r)

Next ==
    \/ \E r \in Requests : RequestStep(r)
    \/ \E v \in 1..MaxVersion : Expire(v)
    \/ SaveEmployee \/ (\E role \in Roles : BindRole(role)) \/ CommitRole
    \/ ClearCache

(* Redis expires what it was told to expire; nothing else need ever happen.  *)
Fairness == \A v \in 1..MaxVersion : WF_vars(Expire(v))

Spec == Init /\ [][Next]_vars /\ Fairness

---------------------------------------------------------------------------
(* Once memberships no longer change, a decision that is out of date does    *)
(* not outlive its ten minutes: a change takes hold, whatever requests and   *)
(* cleared caches do in between.                                             *)
Fresh == version = NoVersion \/ entry[version] \in {NoEntry, member}
ChangesTakeHold == <>[]Fresh

=============================================================================
