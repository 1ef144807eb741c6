------------------------------- MODULE Tenancy -------------------------------
(***************************************************************************)
(* Whose rows a query may touch.  Each process carries a context variable  *)
(* that filters the ORM's queries and a setting of its database session    *)
(* that row-level security compares; middleware and tenant_scope bind both *)
(* and undo it on the way out.                                             *)
(*                                                                         *)
(* A web request has a context and a connection of its own.  The tasks of  *)
(* a Celery process share one context, and a connection as long as it is   *)
(* usable, so they find what the task before them left.  The state is one  *)
(* process and the blocks it is in; an exception leaves them one by one.   *)
(***************************************************************************)
EXTENDS Integers, Sequences, SequencesExt

CONSTANTS
    Tenants,
    NoTenant,
    MaxDepth        \* bound on blocks within blocks

VARIABLES
    process,        \* "web" or "celery"
    bound,          \* _current_tenant
    bypass,         \* _bypass
    guc,            \* app.current_tenant of the session
    broken,         \* the connection has failed
    aborted,        \* the transaction has failed and refuses every statement
    raising,        \* an exception is on its way out
    blocks          \* the blocks the process is in, the innermost last

vars == <<process, bound, bypass, guc, broken, aborted, raising, blocks>>

Block(kind, tenant, previous) == [kind |-> kind, tenant |-> tenant, previous |-> previous]

Init ==
    /\ process \in {"web", "celery"}
    /\ bound = NoTenant /\ bypass = FALSE
    /\ guc = NoTenant /\ broken = FALSE /\ aborted = FALSE
    /\ raising = FALSE
    /\ blocks = <<>>

Idle == blocks = <<>>
Running == ~Idle /\ ~raising /\ Len(blocks) < MaxDepth
InAtomic == \E i \in DOMAIN blocks : blocks[i].kind = "atomic"
SqlWorks == ~broken /\ ~aborted

---------------------------------------------------------------------------
(* What a query finds and a save may write: the ORM's filter or guard, and   *)
(* the policy on the rows.                                                   *)
Filtered == IF bypass THEN Tenants ELSE {bound} \ {NoTenant}
Readable == IF SqlWorks THEN Filtered \intersect {guc} ELSE {}

Accepted(t) == bypass \/ bound \in {NoTenant, t}
Writable == IF SqlWorks THEN {t \in Tenants : Accepted(t) /\ guc = t} ELSE {}

---------------------------------------------------------------------------
(* Requests: a tenant's, or one on a path that needs none.  When the session *)
(* cannot be bound the request fails, and its context goes with it.          *)
StartRequest(t) ==
    /\ Idle /\ process = "web"
    /\ bound' = t /\ guc' = t
    /\ blocks' = <<Block("request", t, NoTenant)>>
    /\ UNCHANGED <<process, bypass, broken, aborted, raising>>

StartExempt ==
    /\ Idle /\ process = "web"
    /\ blocks' = <<Block("exempt", NoTenant, NoTenant)>>
    /\ UNCHANGED <<process, bound, bypass, guc, broken, aborted, raising>>

StartTask ==
    /\ Idle /\ process = "celery" /\ ~broken
    /\ blocks' = <<Block("task", NoTenant, NoTenant)>>
    /\ UNCHANGED <<process, bound, bypass, guc, broken, aborted, raising>>

(* Between tasks an unusable or old connection is closed; the next one has   *)
(* no tenant.                                                                *)
Reconnect ==
    /\ Idle /\ (broken \/ guc # NoTenant)
    /\ broken' = FALSE /\ guc' = NoTenant
    /\ UNCHANGED <<process, bound, bypass, aborted, raising, blocks>>

(* tenant_scope: the context is set, then the session, then the block is     *)
(* protected.                                                                *)
EnterScope(t) ==
    /\ Running
    /\ bound' = t
    /\ IF SqlWorks
       THEN /\ guc' = t
            /\ blocks' = Append(blocks, Block("scope", t, bound))
            /\ UNCHANGED raising
       ELSE /\ raising' = TRUE
            /\ UNCHANGED <<guc, blocks>>
    /\ UNCHANGED <<process, bypass, broken, aborted>>

EnterBypass ==
    /\ Running /\ ~bypass
    /\ bypass' = TRUE
    /\ blocks' = Append(blocks, Block("bypass", NoTenant, NoTenant))
    /\ UNCHANGED <<process, bound, guc, broken, aborted, raising>>

(* A transaction keeps the setting it started with: a rollback restores it.  *)
EnterAtomic ==
    /\ Running /\ SqlWorks
    /\ blocks' = Append(blocks, Block("atomic", NoTenant, guc))
    /\ UNCHANGED <<process, bound, bypass, guc, broken, aborted, raising>>

---------------------------------------------------------------------------
(* Exceptions: of the program, of a statement, or of the connection.         *)
Raise ==
    /\ ~Idle /\ ~raising
    /\ raising' = TRUE
    /\ \/ UNCHANGED <<broken, aborted>>
       \/ aborted' = (InAtomic \/ aborted) /\ UNCHANGED broken
       \/ broken' = TRUE /\ UNCHANGED aborted
    /\ UNCHANGED <<process, bound, bypass, guc, blocks>>

(* A statement's failure is caught outside the transaction it spoilt.         *)
Catch ==
    /\ ~Idle /\ raising /\ ~aborted
    /\ raising' = FALSE
    /\ UNCHANGED <<process, bound, bypass, guc, broken, aborted, blocks>>

(* A scope that forgets the session's tenant.                                *)
LeaveScopeOfContext(block) ==
    /\ block.kind = "scope"
    /\ bound' = block.previous
    /\ raising' = (raising \/ ~SqlWorks)
    /\ UNCHANGED <<guc, bypass, aborted>>

(* The way out of the innermost block, with or without an exception.         *)
LeaveScope(block) ==
    /\ block.kind = "scope"
    /\ bound' = block.previous
    /\ guc' = IF SqlWorks THEN block.previous ELSE guc
    /\ raising' = (raising \/ ~SqlWorks)
    /\ UNCHANGED <<bypass, aborted>>

LeaveBypass(block) ==
    /\ block.kind = "bypass"
    /\ bypass' = FALSE
    /\ UNCHANGED <<bound, guc, aborted, raising>>

LeaveAtomic(block) ==
    /\ block.kind = "atomic"
    /\ guc' = IF raising \/ aborted THEN block.previous ELSE guc
    /\ aborted' = FALSE
    /\ raising' = (raising \/ broken)
    /\ UNCHANGED <<bound, bypass>>

Finish(block) ==
    /\ block.kind \in {"request", "exempt", "task"}
    /\ bound' = IF process = "web" THEN NoTenant ELSE bound
    /\ guc' = IF process = "web" THEN NoTenant ELSE guc
    /\ raising' = FALSE
    /\ UNCHANGED <<bypass, aborted>>

Leave ==
    /\ ~Idle
    /\ LET block == Last(blocks)
       IN  LeaveScope(block) \/ LeaveBypass(block) \/ LeaveAtomic(block) \/ Finish(block)
    /\ blocks' = Front(blocks)
    /\ UNCHANGED <<process, broken>>

Next ==
    \/ \E t \in Tenants : StartRequest(t) \/ EnterScope(t)
    \/ StartExempt \/ StartTask \/ Reconnect
    \/ EnterBypass \/ EnterAtomic
    \/ Raise \/ Catch \/ Leave

Spec == Init /\ [][Next]_vars

---------------------------------------------------------------------------
(* The innermost request or scope: the work is for the tenant it was opened  *)
(* for.                                                                      *)
ForTenant(block) == block.kind \in {"request", "scope"}

Owns(i) == /\ i \in DOMAIN blocks /\ ForTenant(blocks[i])
           /\ \A j \in DOMAIN blocks : j > i => ~ForTenant(blocks[j])

(* Work for a tenant touches that tenant's rows only: through nested scopes, *)
(* rollbacks, lost connections and exceptions caught half-way, and whatever  *)
(* the task before left behind.                                              *)
OwnRowsOnly == \A i \in DOMAIN blocks : Owns(i) => Readable \union Writable \subseteq {blocks[i].tenant}
=============================================================================
