------------------------------ MODULE Settings -------------------------------
(***************************************************************************)
(* Settings that every request reads and few requests change, served from  *)
(* a cache: which tenant a host belongs to and whether it may be served,   *)
(* a tenant's configuration, and a feature flag with its rules.            *)
(*                                                                         *)
(* A reader that finds no entry loads the row and stores what it loaded    *)
(* later.  A writer reads the row without a lock, saves all of it, and     *)
(* only then deletes the entry; some writers never delete it.              *)
(***************************************************************************)
EXTENDS Integers, FiniteSets

CONSTANTS
    Readers,
    Editors,
    Values,         \* of each field
    MaxEdits        \* bound on the edits

VARIABLES
    setting,        \* the committed row of each kind
    cached,         \* its cache entry
    reader,         \* what each reader has loaded and not stored yet
    editor,         \* the form of each editor
    edits

vars == <<setting, cached, reader, editor, edits>>

Kinds == {"host", "config", "flag"}

(* The writers: each changes one field of a kind's row.                      *)
Forms ==
    [tenant_status   |-> [kind |-> "host",   field |-> "a", deletes |-> FALSE],
     config_patch    |-> [kind |-> "config", field |-> "a", deletes |-> TRUE],
     billing_form    |-> [kind |-> "config", field |-> "b", deletes |-> FALSE],
     flag_and_rules  |-> [kind |-> "flag",   field |-> "a", deletes |-> TRUE]]

NoEntry == [a |-> "none", b |-> "none"]
NoLoad == [kind |-> "none"]
NoForm == [form |-> "none"]

Init ==
    /\ \E v \in Values : setting = [k \in Kinds |-> [f \in {"a", "b"} |-> v]]
    /\ cached = [k \in Kinds |-> NoEntry]
    /\ reader = [r \in Readers |-> NoLoad]
    /\ editor = [e \in Editors |-> NoForm]
    /\ edits = 0

---------------------------------------------------------------------------
Load(r) ==
    /\ reader[r] = NoLoad
    /\ \E k \in Kinds :
          /\ cached[k] = NoEntry
          /\ reader' = [reader EXCEPT ![r] = [kind |-> k, row |-> setting[k]]]
    /\ UNCHANGED <<setting, cached, editor, edits>>

StoreEntry(r) ==
    /\ reader[r] # NoLoad
    /\ cached' = [cached EXCEPT ![reader[r].kind] = reader[r].row]
    /\ reader' = [reader EXCEPT ![r] = NoLoad]
    /\ UNCHANGED <<setting, editor, edits>>

(* A host's entry kept for good, on the word that somebody deletes it.       *)
ExpireButHost(k) ==
    /\ cached[k] # NoEntry /\ k # "host"
    /\ cached' = [cached EXCEPT ![k] = NoEntry]
    /\ UNCHANGED <<setting, reader, editor, edits>>

(* Five minutes for a host, an hour for the others.                          *)
Expire(k) ==
    /\ cached[k] # NoEntry
    /\ cached' = [cached EXCEPT ![k] = NoEntry]
    /\ UNCHANGED <<setting, reader, editor, edits>>

(* The operator clears flags by key, or everything at once.                  *)
ClearCache ==
    /\ \/ cached' = [cached EXCEPT !["flag"] = NoEntry]
       \/ cached' = [k \in Kinds |-> NoEntry]
    /\ UNCHANGED <<setting, reader, editor, edits>>

---------------------------------------------------------------------------
ReadSettings(e) ==
    /\ editor[e] = NoForm /\ edits < MaxEdits
    /\ \E f \in DOMAIN Forms :
          editor' = [editor EXCEPT ![e] =
                        [form |-> f, row |-> setting[Forms[f].kind], saved |-> FALSE]]
    /\ edits' = edits + 1
    /\ UNCHANGED <<setting, cached, reader>>

SaveSettings(e) ==
    /\ editor[e] # NoForm /\ ~editor[e].saved
    /\ LET f == Forms[editor[e].form] IN
          /\ \E v \in Values :
                setting' = [setting EXCEPT ![f.kind] = [editor[e].row EXCEPT ![f.field] = v]]
          /\ editor' = [editor EXCEPT ![e] = IF f.deletes THEN [@ EXCEPT !.saved = TRUE]
                                             ELSE NoForm]
    /\ UNCHANGED <<cached, reader, edits>>

DeleteEntry(e) ==
    /\ editor[e] # NoForm /\ editor[e].saved
    /\ cached' = [cached EXCEPT ![Forms[editor[e].form].kind] = NoEntry]
    /\ editor' = [editor EXCEPT ![e] = NoForm]
    /\ UNCHANGED <<setting, reader, edits>>

(* A process dies, between the save and the deletion too.                    *)
EditorDies(e) ==
    /\ editor[e] # NoForm
    /\ editor' = [editor EXCEPT ![e] = NoForm]
    /\ UNCHANGED <<setting, cached, reader, edits>>

Next ==
    \/ \E r \in Readers : Load(r) \/ StoreEntry(r)
    \/ \E k \in Kinds : Expire(k)
    \/ ClearCache
    \/ \E e \in Editors :
          ReadSettings(e) \/ SaveSettings(e) \/ DeleteEntry(e) \/ EditorDies(e)

(* Entries expire by themselves; a request that has loaded goes on.          *)
Fairness ==
    /\ \A k \in Kinds : WF_vars(Expire(k))
    /\ \A r \in Readers : WF_vars(StoreEntry(r))

Spec == Init /\ [][Next]_vars /\ Fairness

---------------------------------------------------------------------------
(* When nobody edits any more, what is served is what was saved last: late   *)
(* stores, writers that forget the cache and writers that die leave nothing  *)
(* stale for longer than an entry lives.                                     *)
SettledIsServed == <>[](\A k \in Kinds : cached[k] \in {NoEntry, setting[k]})
=============================================================================
