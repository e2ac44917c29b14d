--------------------------- MODULE MethodRegistry ---------------------------
(***************************************************************************)
(* InProcessRegistry: plugin methods behind a tokio RwLock.  Plugins       *)
(* register while they boot; PHP threads call at any time, through         *)
(* folk_call and block_on.  The lock is granted in the order of the        *)
(* requests for it; a read lock is held from the grant to the clone of the *)
(* handler, which then runs without it and may never return.               *)
(***************************************************************************)
EXTENDS Integers, Sequences

CONSTANTS
    Callers, \* threads that call methods
    Methods  \* the methods, numbered from 1

VARIABLES
    methods, \* the keys of the map
    lockq,   \* who waits for the lock, in order
    readers, \* who holds it for reading
    call,    \* call[c]: where caller c is in call()
    wanted   \* wanted[c]: the method it looks for, or 0

registryVars == <<methods, lockq, readers, call, wanted>>

RegistryInit ==
    /\ methods = {} /\ lockq = <<>> /\ readers = {}
    /\ call = [c \in Callers |-> "no"]
    /\ wanted = [c \in Callers |-> 0]

Ask(c, m) ==
    /\ call[c] = "no"
    /\ call' = [call EXCEPT ![c] = "asking"]
    /\ wanted' = [wanted EXCEPT ![c] = m]
    /\ lockq' = Append(lockq, [who |-> c, mode |-> "read"])
    /\ UNCHANGED <<methods, readers>>

GrantRead(c) ==
    /\ lockq # <<>> /\ Head(lockq) = [who |-> c, mode |-> "read"]
    /\ lockq' = Tail(lockq)
    /\ readers' = readers \cup {c}
    /\ call' = [call EXCEPT ![c] = "reading"]
    /\ UNCHANGED <<methods, wanted>>

(* The guard is dropped before the handler is called, and by the ? of an
   unknown method. *)
MutReadersAfter(c) == IF wanted[c] \in methods THEN readers ELSE readers \ {c}
ReadersAfter(c) == readers \ {c}

Lookup(c) ==
    /\ call[c] = "reading"
    /\ readers' = ReadersAfter(c)
    /\ call' = [call EXCEPT ![c] =
                   IF wanted[c] \in methods THEN "calling" ELSE "no"]
    /\ wanted' = [wanted EXCEPT ![c] = 0]
    /\ UNCHANGED <<methods, lockq>>

HandlerReturns(c) ==
    /\ call[c] = "calling"
    /\ call' = [call EXCEPT ![c] = "no"]
    /\ UNCHANGED <<methods, lockq, readers, wanted>>

(* register_raw: wait for the write lock, insert (or overwrite), release. *)
RegisterAsk(m) ==
    /\ lockq' = Append(lockq, [who |-> m, mode |-> "write"])
    /\ UNCHANGED <<methods, readers, call, wanted>>

Register(m) ==
    /\ lockq # <<>> /\ Head(lockq) = [who |-> m, mode |-> "write"]
    /\ readers = {}
    /\ methods' = methods \cup {m}
    /\ lockq' = Tail(lockq)
    /\ UNCHANGED <<readers, call, wanted>>
=============================================================================
