---------------------------- MODULE WarehouseProofs ----------------------------
(***************************************************************************)
(* Theorems about the way of an SQL call behind the limiter: the pool,     *)
(* the shared credentials and a statement, for every number of requests    *)
(* and every limit.                                                        *)
(***************************************************************************)
EXTENDS MCWarehouse, FiniteSetTheorems, SequenceTheorems, TLAPS

-----------------------------------------------------------------------------
(* The DuckDB pool.                                                        *)

PoolSteps == {"none", "waiting", "checkout", "opening", "running", "ok", "failed", "exhausted"}

\* What the steps keep: a slot is free or belongs to a task that checks out,
\* opens or runs, so a task at its checkout finds an idle connection or room for
\* one more, as long as none was lost.
PoolInv ==
  /\ connections \in Nat /\ idle \in Nat /\ created \in Nat /\ lost \in Nat
  /\ task \in [Clients -> PoolSteps] /\ caller \in [Clients -> BOOLEAN]
  /\ connections + Pool!In({"checkout"}) + Pool!In({"opening", "running"}) = MaxSize
  /\ PoolSound

\* The pool's module counts with the same operator.
LEMMA PoolCount == \A S : Pool!In(S) = Cardinality(Pool!At(S))
BY Zenon DEF Pool!In, Pool!Cardinality, Cardinality

\* A task that goes to another step is counted there and no longer where it was.
LEMMA TaskMoves ==
  ASSUME task \in [Clients -> PoolSteps], task' \in [Clients -> PoolSteps], NEW r \in Clients,
         \A q \in Clients \ {r} : task'[q] = task[q], NEW S
  PROVE  /\ Pool!In(S) \in Nat
         /\ Pool!In(S)' \in Nat
         /\ task[r] \in S => Pool!In(S) > 0
         /\ Pool!In(S)' = IF task'[r] \in S
                           THEN IF task[r] \in S THEN Pool!In(S) ELSE Pool!In(S) + 1
                           ELSE IF task[r] \in S THEN Pool!In(S) - 1 ELSE Pool!In(S)
<1> DEFINE A == Pool!At(S)
           B == Pool!At(S)'
<1>1. IsFiniteSet(A) /\ IsFiniteSet(B)
  BY FS_Subset, PoolAssumption DEF Pool!At
<1>2. B = IF task'[r] \in S THEN A \cup {r} ELSE A \ {r}
  BY DEF Pool!At
<1>3. r \in A <=> task[r] \in S
  BY DEF Pool!At
<1>4. Pool!In(S) = Cardinality(A) /\ Pool!In(S)' = Cardinality(B)
  BY PoolCount, Zenon DEF Pool!In, Pool!Cardinality, Cardinality
<1> HIDE DEF A, B
<1>5. Cardinality(A) \in Nat /\ Cardinality(B) \in Nat
  BY <1>1, FS_CardinalityType
<1>6. r \in A => Cardinality(A) > 0
  BY <1>1, <1>5, FS_EmptySet
<1>7. Cardinality(A \cup {r}) = IF r \in A THEN Cardinality(A) ELSE Cardinality(A) + 1
  BY <1>1, FS_AddElement
<1>8. Cardinality(A \ {r}) = IF r \in A THEN Cardinality(A) - 1 ELSE Cardinality(A)
  BY <1>1, FS_RemoveElement
<1> QED
  BY <1>2, <1>3, <1>4, <1>5, <1>6, <1>7, <1>8

\* Every step of a checkout, a query, a lost connection or a thread's end keeps
\* the books: what is counted as open is what is idle or held.
LEMMA PoolStep == PoolInv /\ [Pool!Next]_(Pool!vars) => PoolInv'
<1> SUFFICES ASSUME PoolInv, [Pool!Next]_(Pool!vars) PROVE PoolInv'
  OBVIOUS
<1> DEFINE c == Pool!In({"checkout"})
           u == Pool!In({"opening", "running"})
           e == Pool!In({"exhausted"})
<1>1. /\ connections \in Nat /\ idle \in Nat /\ created \in Nat /\ lost \in Nat /\ MaxSize \in Nat
      /\ task \in [Clients -> PoolSteps] /\ caller \in [Clients -> BOOLEAN]
      /\ connections + c + u = MaxSize
      /\ created = idle + u + lost /\ created <= MaxSize
      /\ lost = 0 => e = 0
  BY PoolAssumption DEF PoolInv, PoolSound, NeverExhausted, ConnectionsConserved,
     Pool!NeverExhausted, Pool!ConnectionsConserved
<1>2. SUFFICES
        /\ connections' \in Nat /\ idle' \in Nat /\ created' \in Nat /\ lost' \in Nat
        /\ task' \in [Clients -> PoolSteps] /\ caller' \in [Clients -> BOOLEAN]
        /\ connections' + c' + u' = MaxSize
        /\ created' = idle' + u' + lost' /\ created' <= MaxSize
        /\ lost' = 0 => e' = 0
  BY DEF PoolInv, PoolSound, NeverExhausted, ConnectionsConserved,
     Pool!NeverExhausted, Pool!ConnectionsConserved
<1>3. ASSUME NEW r \in Clients, task' \in [Clients -> PoolSteps], \A q \in Clients \ {r} : task'[q] = task[q]
      PROVE  /\ c \in Nat /\ u \in Nat /\ e \in Nat /\ c' \in Nat /\ u' \in Nat /\ e' \in Nat
             /\ task[r] = "checkout" => c > 0
             /\ task[r] \in {"opening", "running"} => u > 0
             /\ c' = c + (IF task'[r] = "checkout" THEN 1 ELSE 0) - (IF task[r] = "checkout" THEN 1 ELSE 0)
             /\ u' = u + (IF task'[r] \in {"opening", "running"} THEN 1 ELSE 0)
                       - (IF task[r] \in {"opening", "running"} THEN 1 ELSE 0)
             /\ e' = e + (IF task'[r] = "exhausted" THEN 1 ELSE 0) - (IF task[r] = "exhausted" THEN 1 ELSE 0)
  <2>1. \A S : /\ Pool!In(S) \in Nat /\ Pool!In(S)' \in Nat
               /\ task[r] \in S => Pool!In(S) > 0
               /\ Pool!In(S)' = IF task'[r] \in S
                                 THEN IF task[r] \in S THEN Pool!In(S) ELSE Pool!In(S) + 1
                                 ELSE IF task[r] \in S THEN Pool!In(S) - 1 ELSE Pool!In(S)
    BY <1>1, <1>3, TaskMoves
  <2>2. /\ c \in Nat /\ c' \in Nat /\ (task[r] \in {"checkout"} => c > 0)
        /\ c' = IF task'[r] \in {"checkout"} THEN IF task[r] \in {"checkout"} THEN c ELSE c + 1
                                             ELSE IF task[r] \in {"checkout"} THEN c - 1 ELSE c
    BY <2>1, Zenon
  <2>3. /\ u \in Nat /\ u' \in Nat /\ (task[r] \in {"opening", "running"} => u > 0)
        /\ u' = IF task'[r] \in {"opening", "running"}
                THEN IF task[r] \in {"opening", "running"} THEN u ELSE u + 1
                ELSE IF task[r] \in {"opening", "running"} THEN u - 1 ELSE u
    BY <2>1, Zenon
  <2>4. /\ e \in Nat /\ e' \in Nat
        /\ e' = IF task'[r] \in {"exhausted"} THEN IF task[r] \in {"exhausted"} THEN e ELSE e + 1
                                              ELSE IF task[r] \in {"exhausted"} THEN e - 1 ELSE e
    BY <2>1, Zenon
  <2> HIDE DEF c, u, e
  <2> QED
    BY <2>2, <2>3, <2>4
<1>4. task' = task => c' = c /\ u' = u /\ e' = e
  BY DEF Pool!In, Pool!At
<1> HIDE DEF c, u, e
<1>5. ASSUME NEW r \in Clients, Pool!Request(r) PROVE <1>2!1
  <2>1. /\ task' \in [Clients -> PoolSteps] /\ (\A q \in Clients \ {r} : task'[q] = task[q])
        /\ task[r] \in {"none", "ok", "failed", "exhausted"} /\ task'[r] = "waiting"
    BY <1>1, <1>5 DEF Pool!Request, Pool!Goto, PoolSteps
  <2>2. /\ u \in Nat /\ c \in Nat /\ c' = c /\ u' = u
        /\ e = 0 => e' = 0
    BY <1>1, <1>3, <2>1
  <2> QED
    BY <1>1, <1>5, <2>1, <2>2 DEF Pool!Request
<1>6. ASSUME NEW r \in Clients, Pool!GiveUp(r) PROVE <1>2!1
  <2>1. CASE task[r] = "waiting"
    <3>1. task' \in [Clients -> PoolSteps] /\ (\A q \in Clients \ {r} : task'[q] = task[q]) /\ task'[r] = "none"
      BY <1>1, <1>6, <2>1 DEF Pool!GiveUp, PoolSteps
    <3>2. c' = c /\ u' = u /\ e' = e
      BY <1>1, <1>3, <2>1, <3>1
    <3> QED
      BY <1>1, <1>6, <3>1, <3>2 DEF Pool!GiveUp
  <2>2. CASE task[r] # "waiting"
    BY <1>1, <1>4, <1>6, <2>2 DEF Pool!GiveUp
  <2> QED
    BY <2>1, <2>2
<1>7. ASSUME NEW r \in Clients, Pool!Receive(r) PROVE <1>2!1
  BY <1>1, <1>4, <1>7 DEF Pool!Receive
<1>8. ASSUME NEW r \in Clients, Pool!AcquireSlot(r) PROVE <1>2!1
  <2>1. /\ task' \in [Clients -> PoolSteps] /\ (\A q \in Clients \ {r} : task'[q] = task[q])
        /\ task[r] = "waiting" /\ task'[r] = "checkout"
    BY <1>1, <1>8 DEF Pool!AcquireSlot, Pool!Goto, PoolSteps
  <2>2. c \in Nat /\ u \in Nat /\ c' = c + 1 /\ u' = u /\ e' = e
    BY <1>1, <1>3, <2>1
  <2> QED
    BY <1>1, <1>8, <2>1, <2>2 DEF Pool!AcquireSlot
<1>9. ASSUME NEW r \in Clients, Pool!Checkout(r) PROVE <1>2!1
  <2>0. task[r] = "checkout" /\ caller' = caller /\ lost' = lost
    BY <1>9 DEF Pool!Checkout
  <2>1. CASE idle > 0 /\ idle' = idle - 1 /\ Pool!Goto(r, "running") /\ UNCHANGED <<connections, created>>
    <3>1. task' \in [Clients -> PoolSteps] /\ (\A q \in Clients \ {r} : task'[q] = task[q]) /\ task'[r] = "running"
      BY <1>1, <2>1 DEF Pool!Goto, PoolSteps
    <3>2. c \in Nat /\ u \in Nat /\ c' = c - 1 /\ u' = u + 1 /\ e' = e
      BY <1>1, <1>3, <2>0, <3>1
    <3> QED
      BY <1>1, <2>0, <2>1, <3>1, <3>2
  <2>2. CASE idle = 0 /\ created >= MaxSize /\ connections' = connections + 1 /\ Pool!Goto(r, "exhausted")
             /\ UNCHANGED <<idle, created>>
    <3>1. task' \in [Clients -> PoolSteps] /\ (\A q \in Clients \ {r} : task'[q] = task[q]) /\ task'[r] = "exhausted"
      BY <1>1, <2>2 DEF Pool!Goto, PoolSteps
    <3>2. c \in Nat /\ u \in Nat /\ c > 0 /\ c' = c - 1 /\ u' = u
      BY <1>1, <1>3, <2>0, <3>1
    <3>3. lost # 0
      BY <1>1, <2>2, <3>2
    <3> QED
      BY <1>1, <2>0, <2>2, <3>1, <3>2, <3>3
  <2>3. CASE idle = 0 /\ created < MaxSize /\ created' = created + 1 /\ Pool!Goto(r, "opening")
             /\ UNCHANGED <<connections, idle>>
    <3>1. task' \in [Clients -> PoolSteps] /\ (\A q \in Clients \ {r} : task'[q] = task[q]) /\ task'[r] = "opening"
      BY <1>1, <2>3 DEF Pool!Goto, PoolSteps
    <3>2. c \in Nat /\ u \in Nat /\ c' = c - 1 /\ u' = u + 1 /\ e' = e
      BY <1>1, <1>3, <2>0, <3>1
    <3> QED
      BY <1>1, <2>0, <2>3, <3>1, <3>2
  <2> QED
    BY <1>9, <2>1, <2>2, <2>3 DEF Pool!Checkout
<1>10. ASSUME NEW r \in Clients, Pool!Open(r) PROVE <1>2!1
  <2>1. /\ task' \in [Clients -> PoolSteps] /\ (\A q \in Clients \ {r} : task'[q] = task[q])
        /\ task[r] = "opening" /\ task'[r] = "running"
    BY <1>1, <1>10 DEF Pool!Open, Pool!Goto, PoolSteps
  <2>2. c' = c /\ u' = u /\ e' = e
    BY <1>1, <1>3, <2>1
  <2> QED
    BY <1>1, <1>10, <2>1, <2>2 DEF Pool!Open
<1>11. ASSUME NEW r \in Clients, Pool!OpenFails(r) PROVE <1>2!1
  <2>1. /\ task' \in [Clients -> PoolSteps] /\ (\A q \in Clients \ {r} : task'[q] = task[q])
        /\ task[r] = "opening" /\ task'[r] = "failed"
    BY <1>1, <1>11 DEF Pool!OpenFails, Pool!Goto, PoolSteps
  <2>2. c \in Nat /\ u \in Nat /\ u > 0 /\ c' = c /\ u' = u - 1 /\ e' = e
    BY <1>1, <1>3, <2>1
  <2> QED
    BY <1>1, <1>11, <2>1, <2>2 DEF Pool!OpenFails
<1>12. ASSUME NEW r \in Clients, Pool!Return(r) PROVE <1>2!1
  <2>1. /\ task' \in [Clients -> PoolSteps] /\ (\A q \in Clients \ {r} : task'[q] = task[q])
        /\ task[r] = "running" /\ task'[r] \in {"ok", "failed"}
    BY <1>1, <1>12 DEF Pool!Return, PoolSteps
  <2>2. c \in Nat /\ u \in Nat /\ u > 0 /\ c' = c /\ u' = u - 1 /\ e' = e
    BY <1>1, <1>3, <2>1
  <2> QED
    BY <1>1, <1>12, <2>1, <2>2 DEF Pool!Return
<1>13. ASSUME NEW r \in Clients, Pool!Panic(r) PROVE <1>2!1
  <2>1. /\ task' \in [Clients -> PoolSteps] /\ (\A q \in Clients \ {r} : task'[q] = task[q])
        /\ task[r] = "running" /\ task'[r] = "failed"
    BY <1>1, <1>13 DEF Pool!Panic, Pool!Goto, PoolSteps
  <2>2. c \in Nat /\ u \in Nat /\ u > 0 /\ c' = c /\ u' = u - 1
    BY <1>1, <1>3, <2>1
  <2> QED
    BY <1>1, <1>13, <2>1, <2>2 DEF Pool!Panic
<1>14. CASE UNCHANGED Pool!vars
  BY <1>1, <1>4, <1>14 DEF Pool!vars
<1> QED
  BY <1>5, <1>6, <1>7, <1>8, <1>9, <1>10, <1>11, <1>12, <1>13, <1>14 DEF Pool!Next, Pool!TaskStep

\* Whatever opens fail and whichever callers give up, every connection that is
\* counted is idle, in use, being opened or lost with a task, there are never
\* more than the pool's size, and "pool exhausted unexpectedly" is answered only
\* after a task panicked: for every size of the pool and any number of callers.
THEOREM PoolCorrect == Pool!Spec => []PoolSound
<1>1. Pool!Init => PoolInv
  <2> SUFFICES ASSUME Pool!Init PROVE PoolInv
    OBVIOUS
  <2>1. \A S : "none" \notin S => Pool!In(S) = 0
    <3> SUFFICES ASSUME NEW S, "none" \notin S PROVE Pool!In(S) = 0
      OBVIOUS
    <3>1. Pool!At(S) = {}
      BY DEF Pool!Init, Pool!At
    <3> QED
      BY <3>1, FS_EmptySet, PoolCount
  <2>2. Pool!In({"checkout"}) = 0 /\ Pool!In({"opening", "running"}) = 0 /\ Pool!In({"exhausted"}) = 0
    BY <2>1
  <2> QED
    BY <2>2, PoolAssumption DEF Pool!Init, PoolInv, PoolSteps, PoolSound, NeverExhausted, ConnectionsConserved,
       Pool!NeverExhausted, Pool!ConnectionsConserved
<1>2. PoolInv => PoolSound
  BY DEF PoolInv
<1> QED
  BY <1>1, <1>2, PoolStep, PTL DEF Pool!Spec

-----------------------------------------------------------------------------
(* The shared credentials.                                                 *)

TokenTypes ==
  /\ kind \in {"session", "runtime"} /\ issued \in Nat
  /\ cached \in 0 .. issued /\ valid \subseteq 1 .. issued
  /\ step \in [Clients -> {"start", "login", "store", "send", "clear", "done", "error"}]
  /\ token \in [Clients -> 0 .. issued] /\ refused \in [Clients -> 0 .. issued]
  /\ sends \in [Clients -> Nat]

\* A request that logs in, or stores what it got, holds the mutex of the session
\* cache, and what is cached meanwhile is out of date.
LoginExclusive ==
  kind = "session" => \A q \in Clients : step[q] \in {"login", "store"} => lock = q /\ cached \notin valid

\* A runtime token is sent once.
SentOnce == kind = "runtime" => \A q \in Clients : (sends[q] = 0 /\ step[q] # "clear") \/ step[q] \in {"done", "error"}

\* From its clear to its second attempt, nothing a refused request can come upon
\* is the token it was refused with: not what is cached, nor what another request
\* is about to store, nor what it has itself.
RetryUntainted ==
  \A r \in Clients : sends[r] = 1 =>
    /\ step[r] = "start" => /\ cached = 0 \/ cached # refused[r]
                            /\ \A q \in Clients : step[q] = "store" => token[q] # refused[r]
    /\ step[r] \in {"store", "send"} => token[r] # refused[r]

TokenInv == TokenTypes /\ LoginExclusive /\ SentOnce /\ RetryUntainted

\* Logins, stores, clears and retries of any number of requests, in any order with
\* expiry and revocation, keep the refused token away from its second attempt.
LEMMA TokenStep == TokenInv /\ [Tokens!Next]_(Tokens!vars) => TokenInv'
<1> SUFFICES ASSUME TokenInv, [Tokens!Next]_(Tokens!vars) PROVE TokenInv'
  OBVIOUS
<1> USE DEF TokenInv
<1>1. ASSUME NEW t, Tokens!Expire(t) PROVE TokenInv'
  BY <1>1 DEF Tokens!Expire, TokenTypes, LoginExclusive, SentOnce, RetryUntainted
<1>2. ASSUME NEW t, Tokens!Revoke(t) PROVE TokenInv'
  BY <1>2 DEF Tokens!Revoke, TokenTypes, LoginExclusive, SentOnce, RetryUntainted
<1>3. ASSUME NEW r \in Clients, Tokens!Look(r) PROVE TokenInv'
  <2>1. TokenTypes'
    BY <1>3 DEF Tokens!Look, Tokens!Goto, Tokens!Use, TokenTypes
  <2>2. LoginExclusive'
    BY <1>3, LockAssumption DEF Tokens!Look, Tokens!Goto, Tokens!Use, TokenTypes, LoginExclusive
  <2>3. SentOnce'
    BY <1>3 DEF Tokens!Look, Tokens!Goto, Tokens!Use, TokenTypes, SentOnce
  <2>4. RetryUntainted'
    BY <1>3, LockAssumption DEF Tokens!Look, Tokens!Goto, Tokens!Use, TokenTypes, LoginExclusive, SentOnce, RetryUntainted
  <2> QED
    BY <2>1, <2>2, <2>3, <2>4
<1>4. ASSUME NEW r \in Clients, Tokens!Login(r) PROVE TokenInv'
  <2>1. TokenTypes'
    BY <1>4 DEF Tokens!Login, Tokens!Goto, Tokens!Use, TokenTypes
  <2>2. LoginExclusive'
    BY <1>4, LockAssumption DEF Tokens!Login, Tokens!Goto, Tokens!Use, TokenTypes, LoginExclusive
  <2>3. SentOnce'
    BY <1>4 DEF Tokens!Login, Tokens!Goto, Tokens!Use, TokenTypes, SentOnce
  <2>4. RetryUntainted'
    BY <1>4, LockAssumption DEF Tokens!Login, Tokens!Goto, Tokens!Use, TokenTypes, LoginExclusive, SentOnce, RetryUntainted
  <2> QED
    BY <2>1, <2>2, <2>3, <2>4
<1>5. ASSUME NEW r \in Clients, Tokens!LoginFails(r) PROVE TokenInv'
  <2>1. TokenTypes'
    BY <1>5 DEF Tokens!LoginFails, Tokens!Goto, Tokens!Use, TokenTypes
  <2>2. LoginExclusive'
    BY <1>5, LockAssumption DEF Tokens!LoginFails, Tokens!Goto, Tokens!Use, TokenTypes, LoginExclusive
  <2>3. SentOnce'
    BY <1>5 DEF Tokens!LoginFails, Tokens!Goto, Tokens!Use, TokenTypes, SentOnce
  <2>4. RetryUntainted'
    BY <1>5, LockAssumption DEF Tokens!LoginFails, Tokens!Goto, Tokens!Use, TokenTypes, LoginExclusive, SentOnce, RetryUntainted
  <2> QED
    BY <2>1, <2>2, <2>3, <2>4
<1>6. ASSUME NEW r \in Clients, Tokens!Store(r) PROVE TokenInv'
  <2>1. TokenTypes'
    BY <1>6 DEF Tokens!Store, Tokens!Goto, Tokens!Use, TokenTypes
  <2>2. LoginExclusive'
    BY <1>6, LockAssumption DEF Tokens!Store, Tokens!Goto, Tokens!Use, TokenTypes, LoginExclusive
  <2>3. SentOnce'
    BY <1>6 DEF Tokens!Store, Tokens!Goto, Tokens!Use, TokenTypes, SentOnce
  <2>4. RetryUntainted'
    BY <1>6, LockAssumption DEF Tokens!Store, Tokens!Goto, Tokens!Use, TokenTypes, LoginExclusive, SentOnce, RetryUntainted
  <2> QED
    BY <2>1, <2>2, <2>3, <2>4
<1>7. ASSUME NEW r \in Clients, Tokens!Send(r) PROVE TokenInv'
  <2>1. TokenTypes'
    BY <1>7 DEF Tokens!Send, Tokens!Goto, Tokens!Use, TokenTypes
  <2>2. LoginExclusive'
    BY <1>7, LockAssumption DEF Tokens!Send, Tokens!Goto, Tokens!Use, TokenTypes, LoginExclusive
  <2>3. SentOnce'
    BY <1>7 DEF Tokens!Send, Tokens!Goto, Tokens!Use, TokenTypes, SentOnce
  <2>4. RetryUntainted'
    BY <1>7, LockAssumption DEF Tokens!Send, Tokens!Goto, Tokens!Use, TokenTypes, LoginExclusive, SentOnce, RetryUntainted
  <2> QED
    BY <2>1, <2>2, <2>3, <2>4
<1>8. ASSUME NEW r \in Clients, Tokens!Clear(r) PROVE TokenInv'
  <2>1. TokenTypes'
    BY <1>8 DEF Tokens!Clear, Tokens!Goto, Tokens!Use, TokenTypes
  <2>2. LoginExclusive'
    BY <1>8, LockAssumption DEF Tokens!Clear, Tokens!Goto, Tokens!Use, TokenTypes, LoginExclusive
  <2>3. SentOnce'
    BY <1>8 DEF Tokens!Clear, Tokens!Goto, Tokens!Use, TokenTypes, SentOnce
  <2>4. RetryUntainted'
    BY <1>8, LockAssumption DEF Tokens!Clear, Tokens!Goto, Tokens!Use, TokenTypes, LoginExclusive, SentOnce, RetryUntainted
  <2> QED
    BY <2>1, <2>2, <2>3, <2>4
<1>9. CASE UNCHANGED Tokens!vars
  BY <1>9 DEF Tokens!vars, TokenTypes, LoginExclusive, SentOnce, RetryUntainted
<1>10. CASE Tokens!Done
  BY <1>9, <1>10 DEF Tokens!Done
<1> QED
  BY <1>1, <1>2, <1>3, <1>4, <1>5, <1>6, <1>7, <1>8, <1>9, <1>10 DEF Tokens!Next

\* However the logins, clears, stores and expiries of any number of requests
\* interleave, the second attempt of a refused request carries another token than
\* the first, and a token within its time is never replaced in the cache by
\* another.
THEOREM TokensCorrect == Tokens!Spec => TokensFresh
<1>1. Tokens!Init => TokenInv
  BY DEF Tokens!Init, TokenInv, TokenTypes, LoginExclusive, SentOnce, RetryUntainted
<1>2. TokenInv => RetryIsFresh
  BY DEF TokenInv, RetryUntainted, RetryIsFresh, Tokens!RetryIsFresh
<1>3. TokenInv /\ [Tokens!Next]_(Tokens!vars) => [(cached \in valid) => (cached' \in {0, cached})]_(Tokens!vars)
  <2> SUFFICES ASSUME TokenInv, Tokens!Next, cached \in valid PROVE cached' \in {0, cached}
    OBVIOUS
  <2>1. ASSUME NEW r \in Clients, Tokens!Store(r) PROVE cached' \in {0, cached}
    BY <2>1 DEF Tokens!Store, TokenInv, TokenTypes, LoginExclusive
  <2>2. CASE \E t \in 1 .. MaxTokens : Tokens!Expire(t) \/ Tokens!Revoke(t)
    BY <2>2 DEF Tokens!Expire, Tokens!Revoke
  <2>3. ASSUME NEW r \in Clients, Tokens!Look(r) \/ Tokens!Login(r) \/ Tokens!LoginFails(r) \/ Tokens!Send(r) \/ Tokens!Clear(r)
        PROVE  cached' \in {0, cached}
    BY <2>3 DEF Tokens!Look, Tokens!Login, Tokens!LoginFails, Tokens!Send, Tokens!Clear
  <2>4. CASE Tokens!Done
    BY <2>4 DEF Tokens!Done, Tokens!vars
  <2> QED
    BY <2>1, <2>2, <2>3, <2>4 DEF Tokens!Next
<1> QED
  BY <1>1, <1>2, <1>3, TokenStep, PTL DEF Tokens!Spec, TokensFresh, NoReplacement, Tokens!NoReplacement

-----------------------------------------------------------------------------
(* A statement.                                                            *)

\* All of the chunks before n, in their order, each row once.
Whole(rs, n) ==
  /\ \A k \in DOMAIN rs : \E c \in 1 .. n - 1 : \E i \in 1 .. shape[c] : rs[k] = <<c, i>>
  /\ \A j, k \in DOMAIN rs : j < k => Statement!Before(rs[j], rs[k])
  /\ \A c \in 1 .. n - 1 : \A i \in 1 .. shape[c] : Statement!Taken(rs, c, i)

\* A longer interval holds the shorter.
LEMMA IntervalGrows == \A a, b \in Nat : a <= b => \A i \in 1 .. a : i \in 1 .. b
OBVIOUS

\* The first m rows of the next chunk, put after whole chunks, are a beginning of
\* the rows, that ends with the chunk when it is taken to its end and is short of
\* a row when it is not.
LEMMA ChunkTaken ==
  ASSUME shape \in Seq(Nat), NEW n \in 1 .. Len(shape), NEW r \in Seq(Nat \X Nat), Whole(r, n),
         NEW m \in 0 .. shape[n], NEW t \in Seq(Nat \X Nat), Len(t) = Len(r) + m,
         \A k \in 1 .. Len(r) : t[k] = r[k], \A i \in 1 .. m : t[Len(r) + i] = <<n, i>>
  PROVE  /\ Statement!Beginning(t)
         /\ m = shape[n] => Whole(t, n + 1)
         /\ m < shape[n] => ~Statement!AllTaken(t)
<1> DEFINE L == Len(r)
<1>1. /\ L \in Nat /\ DOMAIN r = 1 .. L /\ DOMAIN t = 1 .. L + m /\ n \in Nat /\ shape[n] \in Nat /\ m \in Nat
      /\ Len(shape) \in Nat /\ \A c \in 1 .. Len(shape) : shape[c] \in Nat
  OBVIOUS
<1>a. /\ \A k \in 1 .. L : t[k] = r[k]
      /\ \A i \in 1 .. m : t[L + i] = <<n, i>>
  OBVIOUS
<1> HIDE DEF L
<1>b. /\ \A k \in 1 .. L : k \in DOMAIN t
      /\ \A i \in 1 .. m : L + i \in DOMAIN t /\ i \in 1 .. shape[n]
  <2>1. \A k \in 1 .. L : k \in 1 .. L + m
    BY <1>1
  <2>2. \A i \in 1 .. m : L + i \in 1 .. L + m
    BY <1>1
  <2>3. PICK z \in Nat : z = shape[n] /\ m <= z
    BY <1>1
  <2>4. \A i \in 1 .. m : i \in 1 .. z
    BY <1>1, <2>3, IntervalGrows, Zenon
  <2> QED
    BY <1>1, <2>1, <2>2, <2>3, <2>4
<1>2. \A k \in 1 .. L : \E c \in 1 .. n - 1 : \E i \in 1 .. shape[c] : t[k] = <<c, i>>
  BY <1>1, <1>a DEF Whole
<1>3. \A k \in L + 1 .. L + m : k - L \in 1 .. m /\ t[k] = <<n, k - L>>
  <2> TAKE k \in L + 1 .. L + m
  <2>1. k - L \in 1 .. m /\ L + (k - L) = k
    BY <1>1
  <2> QED
    BY <1>a, <2>1
<1>4. \A k \in DOMAIN t : k \in 1 .. L \/ k \in L + 1 .. L + m
  BY <1>1
<1>5. \A c \in 1 .. n - 1 : \A i \in 1 .. shape[c] : Statement!Taken(t, c, i)
  <2> TAKE c \in 1 .. n - 1
  <2> TAKE i \in 1 .. shape[c]
  <2>1. PICK k \in 1 .. L : r[k] = <<c, i>>
    BY <1>1 DEF Whole, Statement!Taken
  <2>2. k \in DOMAIN t /\ t[k] = <<c, i>>
    BY <1>a, <1>b, <2>1
  <2> QED
    BY <2>2, Zenon DEF Statement!Taken
<1>6. \A i \in 1 .. m : Statement!Taken(t, n, i)
  <2> TAKE i \in 1 .. m
  <2>1. L + i \in DOMAIN t /\ t[L + i] = <<n, i>>
    BY <1>a, <1>b
  <2> QED
    BY <2>1, Zenon DEF Statement!Taken
<1>7. \A k \in DOMAIN t : \E c \in 1 .. n : \E i \in 1 .. shape[c] : t[k] = <<c, i>>
  <2> TAKE k \in DOMAIN t
  <2>1. CASE k \in 1 .. L
    <3>1. PICK c \in 1 .. n - 1 : \E i \in 1 .. shape[c] : t[k] = <<c, i>>
      BY <1>2, <2>1
    <3>2. c \in 1 .. n
      BY <1>1
    <3> QED
      BY <3>1, <3>2
  <2>2. CASE k \in L + 1 .. L + m
    <3>1. t[k] = <<n, k - L>> /\ k - L \in 1 .. m
      BY <1>3, <2>2
    <3>2. k - L \in 1 .. shape[n]
      BY <1>b, <3>1
    <3>3. n \in 1 .. n
      BY <1>1
    <3> QED
      BY <3>1, <3>2, <3>3
  <2> QED
    BY <1>4, <2>1, <2>2
<1>8. \A j, k \in DOMAIN t : j < k => Statement!Before(t[j], t[k])
  <2> SUFFICES ASSUME NEW j \in DOMAIN t, NEW k \in DOMAIN t, j < k PROVE Statement!Before(t[j], t[k])
    OBVIOUS
  <2>1. CASE k \in 1 .. L
    <3>1. j \in 1 .. L
      BY <1>1, <2>1
    <3>2. t[j] = r[j] /\ t[k] = r[k] /\ Statement!Before(r[j], r[k])
      BY <1>1, <1>a, <2>1, <3>1 DEF Whole
    <3> QED
      BY <3>2
  <2>2. CASE j \in 1 .. L /\ k \in L + 1 .. L + m
    <3>1. PICK c \in 1 .. n - 1 : \E i \in 1 .. shape[c] : t[j] = <<c, i>>
      BY <1>2, <2>2
    <3>2. t[k] = <<n, k - L>>
      BY <1>3, <2>2
    <3>3. c < n
      BY <1>1
    <3> QED
      BY <3>1, <3>2, <3>3 DEF Statement!Before
  <2>3. CASE j \in L + 1 .. L + m /\ k \in L + 1 .. L + m
    <3>1. t[j] = <<n, j - L>> /\ t[k] = <<n, k - L>>
      BY <1>3, <2>3
    <3>2. j - L < k - L
      BY <1>1
    <3> QED
      BY <3>1, <3>2 DEF Statement!Before
  <2> QED
    BY <1>1, <1>4, <2>1, <2>2, <2>3
<1>9. ASSUME NEW k \in DOMAIN t, NEW c \in 1 .. Len(shape), NEW i \in 1 .. shape[c], Statement!Before(<<c, i>>, t[k])
      PROVE  Statement!Taken(t, c, i)
  <2>1. CASE c < n
    <3>1. c \in 1 .. n - 1
      BY <1>1, <2>1
    <3> QED
      BY <1>5, <3>1
  <2>2. CASE ~(c < n)
    <3>1. k \notin 1 .. L
      <4> SUFFICES ASSUME k \in 1 .. L PROVE FALSE
        OBVIOUS
      <4>1. PICK d \in 1 .. n - 1 : \E h \in 1 .. shape[d] : t[k] = <<d, h>>
        BY <1>2
      <4> QED
        BY <1>1, <1>9, <2>2, <4>1 DEF Statement!Before
    <3>2. k \in L + 1 .. L + m
      BY <1>4, <3>1
    <3>3. t[k] = <<n, k - L>> /\ k - L \in 1 .. m
      BY <1>3, <3>2
    <3>4. c = n /\ i < k - L
      BY <1>1, <1>9, <2>2, <3>3 DEF Statement!Before
    <3> QED
      BY <1>1, <1>6, <3>3, <3>4
  <2> QED
    BY <2>1, <2>2
<1>10. Statement!Beginning(t)
  <2>1. \A k \in DOMAIN t : \E c \in 1 .. Len(shape) : \E i \in 1 .. shape[c] : t[k] = <<c, i>>
    <3> TAKE k \in DOMAIN t
    <3>1. PICK c \in 1 .. n : \E i \in 1 .. shape[c] : t[k] = <<c, i>>
      BY <1>7
    <3> QED
      BY <1>1, <3>1
  <2> QED
    BY <1>8, <1>9, <2>1 DEF Statement!Beginning
<1>11. m = shape[n] => Whole(t, n + 1)
  <2> HAVE m = shape[n]
  <2>1. 1 .. (n + 1) - 1 = 1 .. n
    BY <1>1
  <2>2. \A c \in 1 .. n : \A i \in 1 .. shape[c] : Statement!Taken(t, c, i)
    <3> TAKE c \in 1 .. n
    <3>1. CASE c = n
      BY <1>6, <3>1
    <3>2. CASE c # n
      <4>1. c \in 1 .. n - 1
        BY <1>1, <3>2
      <4> QED
        BY <1>5, <4>1
    <3> QED
      BY <3>1, <3>2
  <2> QED
    BY <1>7, <1>8, <2>1, <2>2 DEF Whole
<1>12. m < shape[n] => ~Statement!AllTaken(t)
  <2> SUFFICES ASSUME m < shape[n], Statement!AllTaken(t) PROVE FALSE
    OBVIOUS
  <2>1. m + 1 \in 1 .. shape[n]
    BY <1>1
  <2>2. PICK k \in DOMAIN t : t[k] = <<n, m + 1>>
    BY <2>1 DEF Statement!AllTaken, Statement!Taken
  <2>3. k \notin 1 .. L
    BY <1>1, <1>2, <2>2
  <2>4. t[k] = <<n, k - L>> /\ k - L \in 1 .. m
    BY <1>3, <1>4, <2>3
  <2> QED
    BY <1>1, <2>2, <2>4
<1> QED
  BY <1>10, <1>11, <1>12

\* The rows of a chunk that fit under the limit.
LEMMA FirstRows ==
  ASSUME NEW S, NEW s \in Seq(S), NEW n \in Nat
  PROVE  /\ Statement!FirstOf(s, n) \in Seq(S)
         /\ Len(Statement!FirstOf(s, n)) = IF n < Len(s) THEN n ELSE Len(s)
         /\ \A k \in 1 .. Len(Statement!FirstOf(s, n)) : Statement!FirstOf(s, n)[k] = s[k]
         /\ Statement!FirstOf(s, n) = s <=> Len(s) <= n
<1> DEFINE m == IF n < Len(s) THEN n ELSE Len(s)
<1>1. Len(s) \in Nat /\ m \in Nat /\ m \in 0 .. Len(s) /\ (m = Len(s) <=> Len(s) <= n)
  BY LenProperties
<1>2. Statement!FirstOf(s, n) = SubSeq(s, 1, m)
  BY DEF Statement!FirstOf
<1> HIDE DEF m
<1>3. /\ SubSeq(s, 1, m) \in Seq(S) /\ Len(SubSeq(s, 1, m)) = m
      /\ \A k \in 1 .. m : SubSeq(s, 1, m)[k] = s[k]
  BY <1>1, SubSeqProperties
<1>4. m = Len(s) => SubSeq(s, 1, m) = s
  BY <1>1, <1>3, SeqEqual
<1>5. SubSeq(s, 1, m) = s => m = Len(s)
  BY <1>3
<1> QED
  BY <1>1, <1>2, <1>3, <1>4, <1>5 DEF m

\* The rows of a chunk are as many as its shape says, each with its place.
LEMMA RowsOfChunk ==
  ASSUME shape \in Seq(Nat), NEW c \in 1 .. Len(shape)
  PROVE  /\ Statement!Rows(c) \in Seq(Nat \X Nat) /\ Len(Statement!Rows(c)) = shape[c]
         /\ \A i \in 1 .. shape[c] : Statement!Rows(c)[i] = <<c, i>>
<1>1. PICK z \in Nat : z = shape[c]
  OBVIOUS
<1>2. c \in Nat
  OBVIOUS
<1>3. Statement!Rows(c) = [i \in 1 .. z |-> <<c, i>>]
  BY <1>1 DEF Statement!Rows
<1>4. \A i \in 1 .. z : <<c, i>> \in Nat \X Nat
  BY <1>2
<1>5. /\ [i \in 1 .. z |-> <<c, i>>] \in Seq(Nat \X Nat)
      /\ Len([i \in 1 .. z |-> <<c, i>>]) = z
  BY <1>4
<1> QED
  BY <1>1, <1>3, <1>5

\* The limit of the call is a number, within the configured maximum if there is one.
LEMMA LimitKept ==
  ASSUME request \in [rows : RowLimits, chunks : ChunkLimits, fetchAll : BOOLEAN], maxRows \in MaxRows
  PROVE  Statement!RowLimit \in Nat /\ (maxRows > 0 => Statement!RowLimit <= maxRows)
<1>1. request.rows \in Nat \cup {-1} /\ maxRows \in Nat /\ DefaultRows \in Nat
  BY StatementAssumption
<1> DEFINE b == Statement!Bounded(request.rows, maxRows, DefaultRows)
<1>2. /\ b \in Nat \cup {-1}
      /\ maxRows > 0 => b \in Nat /\ b <= maxRows
  BY <1>1 DEF Statement!Bounded, Statement!None
<1> HIDE DEF b
<1> QED
  BY <1>1, <1>2 DEF Statement!RowLimit, Statement!None, b

-----------------------------------------------------------------------------
\* What the call's control keeps, whatever it collects.
ControlInv ==
  /\ StatementTypeOK /\ StartedOnce /\ NoOrphan
  /\ request \in [rows : RowLimits, chunks : ChunkLimits, fetchAll : BOOLEAN]
  /\ maxRows \in MaxRows /\ maxChunks \in MaxChunks /\ (withheld => provider # "bigquery")
  /\ next = fetched + 1
  /\ pc = "submit" => executions = 0
  /\ pc \in {"result", "fetch"} => job # "running"
  /\ outcome = "none" <=> pc # "done"

\* What is collected: nothing before the result, then whole chunks until the
\* result is marked, and after the mark no more.
Collected ==
  /\ Statement!Beginning(rows)
  /\ ~truncated => /\ Whole(rows, next)
                   /\ provider # "databricks" /\ ~request.fetchAll => next > Len(shape)
  /\ truncated => ~Statement!AllTaken(rows) \/ next <= Len(shape) \/ withheld

CollectInv ==
  /\ rows \in Seq(Nat \X Nat) /\ Len(rows) <= Statement!RowLimit
  /\ pc \notin {"fetch", "done"} => rows = <<>> /\ next = 1 /\ ~truncated
  /\ pc = "fetch" \/ outcome = "ok" => Collected
  /\ CompleteUnlessTruncated

\* What concerns the statement at the provider: it is started once, and left
\* running only behind a call that says so or was dropped.
LEMMA ControlStep == ControlInv /\ [Statement!Next]_(Statement!vars) => ControlInv'
<1> SUFFICES ASSUME ControlInv, [Statement!Next]_(Statement!vars) PROVE ControlInv'
  OBVIOUS
<1>0. Len(shape) \in Nat /\ MaxPoll \in Nat /\ GetRetries \in Nat
  BY StatementAssumption DEF ControlInv, StatementTypeOK, Statement!TypeOK
<1> USE <1>0 DEF ControlInv, StatementTypeOK, Statement!TypeOK, StartedOnce, Statement!StartedOnce, NoOrphan,
       Statement!NoOrphan, Statement!Running, Statement!call, Statement!collected
<1>1. ASSUME Statement!Accept PROVE ControlInv'
  BY <1>1 DEF Statement!Accept
<1>2. ASSUME Statement!SubmitFails PROVE ControlInv'
  BY <1>2 DEF Statement!SubmitFails
<1>3. ASSUME Statement!JobEnds PROVE ControlInv'
  BY <1>3 DEF Statement!JobEnds
<1>4. ASSUME Statement!Sleep PROVE ControlInv'
  BY <1>4 DEF Statement!Sleep
<1>5. ASSUME Statement!Get PROVE ControlInv'
  BY <1>5 DEF Statement!Get
<1>6. ASSUME Statement!GetFails PROVE ControlInv'
  BY <1>6 DEF Statement!GetFails, Statement!Finish
<1>7. ASSUME Statement!Cancel PROVE ControlInv'
  BY <1>7 DEF Statement!Cancel
<1>8. ASSUME Statement!Abandon PROVE ControlInv'
  BY <1>8 DEF Statement!Abandon, Statement!Finish
<1>9. ASSUME Statement!ResultFails PROVE ControlInv'
  BY <1>9 DEF Statement!ResultFails, Statement!Finish
<1>10. ASSUME Statement!FirstChunk PROVE ControlInv'
  BY <1>10 DEF Statement!FirstChunk
<1>11. ASSUME Statement!Deliver PROVE ControlInv'
  BY <1>11 DEF Statement!Deliver, Statement!Finish
<1>12. ASSUME pc = "fetch", Statement!More, Statement!FetchChunk \/ Statement!Mark PROVE ControlInv'
  <2>1. next <= Len(shape)
    BY <1>12 DEF Statement!More
  <2>2. CASE Statement!FetchChunk
    <3>1. truncated' \in BOOLEAN
      BY <2>2 DEF Statement!FetchChunk
    <3>2. /\ next' = next + 1 /\ fetched' = fetched + 1 /\ tries' = 0
          /\ UNCHANGED <<provider, request, shape, maxRows, maxChunks, withheld, job, executions, pc, elapsed, outcome, failed>>
      BY <2>2 DEF Statement!FetchChunk
    <3> QED
      BY <1>12, <2>1, <3>1, <3>2
  <2>3. CASE Statement!Mark
    BY <1>12, <2>3 DEF Statement!Mark
  <2> QED
    BY <1>12, <2>2, <2>3
<1>13. CASE UNCHANGED Statement!vars
  BY <1>13 DEF Statement!vars
<1>14. CASE Statement!Done
  BY <1>13, <1>14 DEF Statement!Done
<1> QED
  BY <1>1, <1>2, <1>3, <1>4, <1>5, <1>6, <1>7, <1>8, <1>9, <1>10, <1>11, <1>12, <1>13, <1>14
     DEF Statement!Next, Statement!ClientStep, Statement!SubmitDatabricks, Statement!SubmitSnowflake, Statement!SubmitBigQuery,
         Statement!PollDatabricks, Statement!PollSnowflake, Statement!PollBigQuery,
         Statement!ResultDatabricks, Statement!PartitionsSnowflake, Statement!PagesBigQuery

\* A chunk that is collected after whole chunks.
LEMMA ChunkCollected ==
  ASSUME ControlInv, shape \in Seq(Nat), NEW r \in Seq(Nat \X Nat), Len(r) <= Statement!RowLimit,
         NEW n \in 1 .. Len(shape), Whole(r, n),
         NEW t, t = r \o Statement!Fitting(r, Statement!Rows(n))
  PROVE  /\ t \in Seq(Nat \X Nat) /\ Len(t) <= Statement!RowLimit /\ Statement!Beginning(t)
         /\ Statement!Fitting(r, Statement!Rows(n)) = Statement!Rows(n) => Whole(t, n + 1)
         /\ Statement!Fitting(r, Statement!Rows(n)) # Statement!Rows(n) => ~Statement!AllTaken(t)
<1> DEFINE left == Statement!RowLimit - Len(r)
           f == Statement!FirstOf(Statement!Rows(n), left)
           m == Len(f)
<1>1. Statement!RowLimit \in Nat /\ Len(r) \in Nat /\ left \in Nat
  BY LimitKept, LenProperties DEF ControlInv
<1>2. Statement!Fitting(r, Statement!Rows(n)) = f
  BY DEF Statement!Fitting
<1>3. /\ Statement!Rows(n) \in Seq(Nat \X Nat) /\ Len(Statement!Rows(n)) = shape[n]
      /\ \A i \in 1 .. shape[n] : Statement!Rows(n)[i] = <<n, i>>
  BY RowsOfChunk
<1> HIDE DEF left
<1>4. /\ f \in Seq(Nat \X Nat) /\ m = IF left < shape[n] THEN left ELSE shape[n]
      /\ \A i \in 1 .. m : f[i] = Statement!Rows(n)[i]
      /\ f = Statement!Rows(n) <=> shape[n] <= left
  BY <1>1, <1>3, FirstRows
<1> HIDE DEF f, m
<1>5. PICK z \in Nat : z = shape[n]
  OBVIOUS
<1>6. m \in Nat /\ m <= z /\ m <= left /\ (m = z <=> z <= left) /\ m \in 0 .. shape[n]
  BY <1>1, <1>4, <1>5
<1>7. \A i \in 1 .. m : f[i] = <<n, i>>
  <2> TAKE i \in 1 .. m
  <2>1. i \in 1 .. z
    BY <1>6, IntervalGrows, Zenon
  <2> QED
    BY <1>3, <1>4, <1>5, <2>1
<1>8. /\ t \in Seq(Nat \X Nat) /\ Len(t) = Len(r) + m
      /\ \A k \in 1 .. Len(r) + m : t[k] = IF k <= Len(r) THEN r[k] ELSE f[k - Len(r)]
  BY <1>2, <1>4, ConcatProperties DEF m
<1>9. \A k \in 1 .. Len(r) : t[k] = r[k]
  BY <1>1, <1>6, <1>8
<1>10. \A i \in 1 .. m : t[Len(r) + i] = <<n, i>>
  <2> TAKE i \in 1 .. m
  <2>1. Len(r) + i \in 1 .. Len(r) + m /\ ~(Len(r) + i <= Len(r)) /\ (Len(r) + i) - Len(r) = i
    BY <1>1, <1>6
  <2> QED
    BY <1>7, <1>8, <2>1
<1>11. /\ Statement!Beginning(t)
       /\ m = shape[n] => Whole(t, n + 1)
       /\ m < shape[n] => ~Statement!AllTaken(t)
  BY <1>6, <1>8, <1>9, <1>10, ChunkTaken
<1>12. Len(t) <= Statement!RowLimit
  BY <1>1, <1>6, <1>8 DEF left
<1>13. f = Statement!Rows(n) => m = shape[n]
  BY <1>4, <1>5, <1>6
<1>14. f # Statement!Rows(n) => m < shape[n]
  BY <1>1, <1>4, <1>5, <1>6
<1> QED
  BY <1>2, <1>8, <1>11, <1>12, <1>13, <1>14

\* Whole chunks are a beginning of the rows, and all of them after the last chunk.
LEMMA WholeBegins ==
  ASSUME shape \in Seq(Nat), NEW n \in 1 .. Len(shape) + 1, NEW r \in Seq(Nat \X Nat), Whole(r, n)
  PROVE  Statement!Beginning(r) /\ (n > Len(shape) => Statement!AllTaken(r))
<1>1. Len(shape) \in Nat /\ n \in Nat /\ \A c \in 1 .. n - 1 : c \in 1 .. Len(shape)
  OBVIOUS
<1>2. \A k \in DOMAIN r : \E c \in 1 .. Len(shape) : \E i \in 1 .. shape[c] : r[k] = <<c, i>>
  BY <1>1 DEF Whole
<1>3. ASSUME NEW k \in DOMAIN r, NEW c \in 1 .. Len(shape), NEW i \in 1 .. shape[c], Statement!Before(<<c, i>>, r[k])
      PROVE  Statement!Taken(r, c, i)
  <2>1. PICK d \in 1 .. n - 1 : \E h \in 1 .. shape[d] : r[k] = <<d, h>>
    BY DEF Whole
  <2>2. c <= d
    <3>1. PICK h : r[k] = <<d, h>>
      BY <2>1
    <3>2. c < d \/ c = d
      BY <1>3, <3>1 DEF Statement!Before
    <3>3. c \in Nat /\ d \in Nat
      BY <1>1
    <3> QED
      BY <3>2, <3>3
  <2>3. c \in 1 .. n - 1
    BY <1>1, <2>2
  <2> QED
    BY <2>3 DEF Whole
<1>4. n > Len(shape) => Statement!AllTaken(r)
  <2> HAVE n > Len(shape)
  <2>1. \A c \in 1 .. Len(shape) : c \in 1 .. n - 1
    BY <1>1
  <2> QED
    BY <2>1 DEF Whole, Statement!AllTaken
<1> QED
  BY <1>2, <1>3, <1>4 DEF Whole, Statement!Beginning

\* What an answer with the rows collected so far would have to satisfy.
CompleteRows ==
  /\ Statement!Beginning(rows)
  /\ \/ truncated
     \/ \A c \in 1 .. Len(shape) : Statement!Asked(c) => \A i \in 1 .. shape[c] : Statement!Taken(rows, c, i)
  /\ withheld => truncated \/ provider = "snowflake"

\* The collected rows are judged alike after a step that leaves them and the call.
LEMMA SameResult ==
  ASSUME UNCHANGED <<provider, request, shape, maxRows, maxChunks, withheld, rows, next, truncated>>
  PROVE  /\ Collected' = Collected /\ Statement!RowLimit' = Statement!RowLimit
         /\ Statement!Beginning(rows)' = Statement!Beginning(rows)
         /\ Statement!AllTaken(rows)' = Statement!AllTaken(rows)
         /\ CompleteUnlessTruncated' = (outcome' = "ok" => CompleteRows)
<1>1. Statement!Beginning(rows)' = Statement!Beginning(rows)
  BY DEF Statement!Beginning, Statement!Before, Statement!Taken
<1>2. Statement!AllTaken(rows)' = Statement!AllTaken(rows)
  BY DEF Statement!AllTaken, Statement!Taken
<1>3. Whole(rows, next)' = Whole(rows, next)
  BY DEF Whole, Statement!Before, Statement!Taken
<1>4. Collected' = Collected
  BY <1>1, <1>2, <1>3 DEF Collected
<1>5. Statement!RowLimit' = Statement!RowLimit /\ Statement!ChunkLimit' = Statement!ChunkLimit
  BY DEF Statement!RowLimit, Statement!ChunkLimit, Statement!Bounded
<1>6. CompleteUnlessTruncated' = (outcome' = "ok" => CompleteRows)
  BY <1>1, <1>5 DEF CompleteUnlessTruncated, Statement!CompleteUnlessTruncated, CompleteRows, Statement!Asked, Statement!Taken
<1> QED
  BY <1>1, <1>2, <1>4, <1>5, <1>6

\* New rows of the same result.
LEMMA NewRows ==
  ASSUME shape' = shape
  PROVE  /\ Statement!Beginning(rows)' = Statement!Beginning(rows')
         /\ Statement!AllTaken(rows)' = Statement!AllTaken(rows')
         /\ Whole(rows, next)' = Whole(rows', next')
<1>1. Statement!Beginning(rows)' = Statement!Beginning(rows')
  BY DEF Statement!Beginning, Statement!Before, Statement!Taken
<1>2. Statement!AllTaken(rows)' = Statement!AllTaken(rows')
  BY DEF Statement!AllTaken, Statement!Taken
<1>3. Whole(rows, next)' = Whole(rows', next')
  BY DEF Whole, Statement!Before, Statement!Taken
<1> QED
  BY <1>1, <1>2, <1>3

\* What concerns the rows: chunk after chunk, the rows collected are a beginning
\* of the result, with every chunk asked for unless the answer says truncated.
LEMMA CollectStep == ControlInv /\ CollectInv /\ [Statement!Next]_(Statement!vars) => CollectInv'
<1> SUFFICES ASSUME ControlInv, CollectInv, [Statement!Next]_(Statement!vars) PROVE CollectInv'
  OBVIOUS
<1>0. /\ shape \in Seq(Nat) /\ Len(shape) \in Nat /\ next \in 1 .. Len(shape) + 1
      /\ Statement!RowLimit \in Nat
  BY StatementAssumption, LimitKept DEF ControlInv, StatementTypeOK, Statement!TypeOK
\* Most steps leave the call and what is collected, and give no result.
<1>1. ASSUME UNCHANGED <<provider, request, shape, maxRows, maxChunks, withheld, rows, next, truncated>>,
             pc' \notin {"fetch", "done"} => pc \notin {"fetch", "done"}, pc' = "fetch" => pc = "fetch",
             outcome' # "ok" \/ outcome' = outcome
      PROVE  CollectInv'
  <2>1. /\ Collected' = Collected /\ Statement!RowLimit' = Statement!RowLimit
        /\ CompleteUnlessTruncated' = (outcome' = "ok" => CompleteRows)
    BY <1>1, SameResult
  <2>2. outcome = "ok" => CompleteRows
    BY DEF CollectInv, CompleteRows, CompleteUnlessTruncated, Statement!CompleteUnlessTruncated
  <2> QED
    BY <1>1, <2>1, <2>2 DEF CollectInv
<1>2. CASE Statement!Accept \/ Statement!SubmitFails \/ Statement!JobEnds \/ Statement!Sleep \/ Statement!Get
  BY <1>1, <1>2 DEF Statement!Accept, Statement!SubmitFails, Statement!JobEnds, Statement!Sleep, Statement!Get,
     Statement!call, Statement!collected
<1>3. CASE Statement!GetFails \/ Statement!Cancel \/ Statement!Abandon \/ Statement!ResultFails
  BY <1>1, <1>3 DEF Statement!GetFails, Statement!Cancel, Statement!Abandon, Statement!ResultFails, Statement!Finish,
     Statement!call, Statement!collected
<1>4. CASE UNCHANGED Statement!vars
  BY <1>1, <1>4 DEF Statement!vars, Statement!call, Statement!collected
<1>5. CASE Statement!Done
  BY <1>4, <1>5 DEF Statement!Done
<1>6. CASE Statement!FirstChunk
  <2>1. PICK inline \in BOOLEAN :
          LET n == IF inline /\ shape # <<>> THEN 1 ELSE 0
              chunk == IF n = 1 THEN Statement!Rows(1) ELSE <<>>
          IN  /\ rows' = Statement!Fitting(rows, chunk)
              /\ fetched' = n
              /\ next' = n + 1
              /\ truncated' = \/ Statement!Fitting(rows, chunk) # chunk
                              \/ provider # "databricks" /\ ~request.fetchAll /\ n < Len(shape)
    BY <1>6 DEF Statement!FirstChunk
  <2>2. /\ rows = <<>> /\ pc = "result" /\ pc' = "fetch"
        /\ UNCHANGED <<provider, request, shape, maxRows, maxChunks, withheld, outcome>> /\ outcome = "none"
    BY <1>6 DEF Statement!FirstChunk, CollectInv, ControlInv, Statement!call
  <2>3. Whole(<<>>, 1)
    BY DEF Whole
  <2>4. CASE inline /\ shape # <<>>
    <3>1. /\ rows' = Statement!Fitting(rows, Statement!Rows(1)) /\ next' = 2
          /\ truncated' = \/ Statement!Fitting(rows, Statement!Rows(1)) # Statement!Rows(1)
                          \/ provider # "databricks" /\ ~request.fetchAll /\ 1 < Len(shape)
      BY <2>1, <2>4
    <3>2. 1 \in 1 .. Len(shape)
      BY <1>0, <2>4, EmptySeq
    <3>3. Statement!Fitting(rows, Statement!Rows(1)) \in Seq(Nat \X Nat)
      <4>1. Statement!RowLimit - Len(rows) \in Nat
        BY <1>0, <2>2
      <4> QED
        BY <1>0, <3>2, <4>1, RowsOfChunk, FirstRows DEF Statement!Fitting
    <3>4. rows' = rows \o Statement!Fitting(rows, Statement!Rows(1))
      BY <2>2, <3>1, <3>3, ConcatEmptySeq
    <3>5. /\ rows' \in Seq(Nat \X Nat) /\ Len(rows') <= Statement!RowLimit /\ Statement!Beginning(rows')
          /\ Statement!Fitting(rows, Statement!Rows(1)) = Statement!Rows(1) => Whole(rows', 2)
          /\ Statement!Fitting(rows, Statement!Rows(1)) # Statement!Rows(1) => ~Statement!AllTaken(rows')
      <4>1. rows \in Seq(Nat \X Nat) /\ Len(rows) <= Statement!RowLimit /\ Whole(rows, 1)
        BY <2>2, <2>3 DEF CollectInv
      <4>2. /\ rows' \in Seq(Nat \X Nat) /\ Len(rows') <= Statement!RowLimit /\ Statement!Beginning(rows')
            /\ Statement!Fitting(rows, Statement!Rows(1)) = Statement!Rows(1) => Whole(rows', 1 + 1)
            /\ Statement!Fitting(rows, Statement!Rows(1)) # Statement!Rows(1) => ~Statement!AllTaken(rows')
        BY <1>0, <3>2, <3>4, <4>1, ChunkCollected
      <4>3. 1 + 1 = 2
        OBVIOUS
      <4> QED
        BY <4>2, <4>3, Zenon
    <3>6. Statement!RowLimit' = Statement!RowLimit
      BY <2>2 DEF Statement!RowLimit, Statement!Bounded
    <3>7. Collected'
      BY <1>0, <2>2, <3>1, <3>2, <3>5, NewRows DEF Collected
    <3> QED
      BY <2>2, <3>5, <3>6, <3>7 DEF CollectInv, CompleteUnlessTruncated, Statement!CompleteUnlessTruncated
  <2>5. CASE ~(inline /\ shape # <<>>)
    <3>1. /\ rows' = Statement!Fitting(rows, <<>>) /\ next' = 1
          /\ truncated' = \/ Statement!Fitting(rows, <<>>) # <<>>
                          \/ provider # "databricks" /\ ~request.fetchAll /\ 0 < Len(shape)
      BY <2>1, <2>5
    <3>2. Statement!Fitting(rows, <<>>) = <<>>
      <4>1. <<>> \in Seq(Nat \X Nat) /\ Len(<<>>) = 0 /\ Statement!RowLimit - Len(rows) \in Nat
        BY <1>0, <2>2
      <4>2. Len(<<>>) <= Statement!RowLimit - Len(rows)
        BY <4>1
      <4> QED
        BY <4>1, <4>2, FirstRows DEF Statement!Fitting
    <3>3. rows' \in Seq(Nat \X Nat) /\ Len(rows') = 0 /\ Whole(rows', next') /\ 1 \in 1 .. Len(shape) + 1
      <4>1. rows' = <<>> /\ next' = 1
        BY <3>1, <3>2
      <4>2. Whole(rows', next')
        BY <2>3, <4>1
      <4>3. 1 \in 1 .. Len(shape) + 1
        BY <1>0
      <4> QED
        BY <4>1, <4>2, <4>3
    <3>4. Statement!Beginning(rows')
      BY <1>0, <3>1, <3>3, WholeBegins
    <3>5. Statement!RowLimit' = Statement!RowLimit
      BY <2>2 DEF Statement!RowLimit, Statement!Bounded
    <3>6. Collected'
      BY <1>0, <2>2, <3>1, <3>2, <3>3, <3>4, NewRows DEF Collected
    <3> QED
      BY <1>0, <2>2, <3>3, <3>5, <3>6 DEF CollectInv, CompleteUnlessTruncated, Statement!CompleteUnlessTruncated
  <2> QED
    BY <2>4, <2>5
<1>7. ASSUME pc = "fetch", Statement!More, Statement!FetchChunk PROVE CollectInv'
  <2>1. /\ rows' = rows \o Statement!Fitting(rows, Statement!Rows(next)) /\ next' = next + 1
        /\ truncated' = (Statement!Fitting(rows, Statement!Rows(next)) # Statement!Rows(next))
        /\ UNCHANGED <<provider, request, shape, maxRows, maxChunks, withheld, pc, outcome>>
    BY <1>7 DEF Statement!FetchChunk, Statement!call
  <2>2. next \in 1 .. Len(shape) /\ request.fetchAll /\ Whole(rows, next) /\ outcome = "none"
    BY <1>0, <1>7 DEF Statement!More, CollectInv, Collected, ControlInv
  <2>3. /\ rows' \in Seq(Nat \X Nat) /\ Len(rows') <= Statement!RowLimit /\ Statement!Beginning(rows')
        /\ Statement!Fitting(rows, Statement!Rows(next)) = Statement!Rows(next) => Whole(rows', next + 1)
        /\ Statement!Fitting(rows, Statement!Rows(next)) # Statement!Rows(next) => ~Statement!AllTaken(rows')
    BY <1>0, <2>1, <2>2, ChunkCollected DEF CollectInv
  <2>4. Statement!RowLimit' = Statement!RowLimit
    BY <2>1 DEF Statement!RowLimit, Statement!Bounded
  <2>5. Collected'
    BY <2>1, <2>2, <2>3, NewRows DEF Collected
  <2> QED
    BY <1>7, <2>1, <2>2, <2>3, <2>4, <2>5 DEF CollectInv, CompleteUnlessTruncated, Statement!CompleteUnlessTruncated
<1>8. ASSUME pc = "fetch", Statement!More, Statement!Mark PROVE CollectInv'
  <2>1. truncated' = TRUE /\ UNCHANGED <<provider, request, shape, maxRows, maxChunks, withheld, pc, outcome, rows, next>>
    BY <1>8 DEF Statement!Mark, Statement!call
  <2>2. next <= Len(shape) /\ Statement!Beginning(rows) /\ outcome = "none"
    BY <1>8 DEF Statement!More, CollectInv, Collected, ControlInv
  <2>3. Statement!RowLimit' = Statement!RowLimit
    BY <2>1 DEF Statement!RowLimit, Statement!Bounded
  <2>4. Collected'
    BY <2>1, <2>2, NewRows DEF Collected
  <2> QED
    BY <1>8, <2>1, <2>2, <2>3, <2>4 DEF CollectInv, CompleteUnlessTruncated, Statement!CompleteUnlessTruncated
<1>9. CASE Statement!Deliver
  <2>1. /\ pc = "fetch" /\ pc' = "done" /\ outcome' = "ok"
        /\ ~Statement!More \/ (provider = "databricks" /\ next > Statement!ChunkLimit)
        /\ truncated' = (truncated \/ (provider = "databricks" /\ withheld))
        /\ UNCHANGED <<provider, request, shape, maxRows, maxChunks, withheld, rows, next>>
    BY <1>9 DEF Statement!Deliver, Statement!call
  <2>2. Collected
    BY <2>1 DEF CollectInv
  <2>3. /\ Statement!RowLimit' = Statement!RowLimit /\ Statement!ChunkLimit' = Statement!ChunkLimit
        /\ Statement!ChunkLimit \in Nat
    <3>1. request.chunks \in Nat \cup {-1} /\ maxChunks \in Nat /\ DefaultChunks \in Nat
      BY StatementAssumption DEF ControlInv
    <3>2. Statement!Bounded(request.chunks, maxChunks, DefaultChunks) \in Nat \cup {-1}
      BY <3>1 DEF Statement!Bounded, Statement!None
    <3> QED
      BY <2>1, <3>1, <3>2 DEF Statement!RowLimit, Statement!ChunkLimit, Statement!Bounded, Statement!None
  <2>4. ASSUME ~truncated, NEW c \in 1 .. Len(shape), Statement!Asked(c), NEW i \in 1 .. shape[c]
        PROVE  Statement!Taken(rows, c, i)
    <3>1. Whole(rows, next) /\ (provider # "databricks" /\ ~request.fetchAll => next > Len(shape))
      BY <2>2, <2>4 DEF Collected
    <3>2. next > Len(shape) \/ (provider = "databricks" /\ next > Statement!ChunkLimit /\ c <= Statement!ChunkLimit)
      <4>1. CASE provider = "databricks"
        BY <1>0, <2>1, <2>4, <4>1 DEF Statement!More, Statement!Asked
      <4>2. CASE provider # "databricks"
        BY <1>0, <2>1, <2>4, <3>1, <4>2 DEF Statement!More
      <4> QED
        BY <4>1, <4>2
    <3>3. c \in 1 .. next - 1
      BY <1>0, <2>3, <3>2
    <3> QED
      BY <3>1, <3>3 DEF Whole
  <2>5. CompleteRows' /\ Collected'
    <3>1. Statement!Beginning(rows)' /\ (Whole(rows, next) => Whole(rows, next)')
          /\ (Statement!AllTaken(rows)' = Statement!AllTaken(rows))
      BY <2>1, <2>2, NewRows DEF Collected
    <3>2. Collected'
      BY <2>1, <2>2, <3>1 DEF Collected
    <3>3. truncated' \/ \A c \in 1 .. Len(shape) : Statement!Asked(c)' => \A i \in 1 .. shape[c] : Statement!Taken(rows, c, i)'
      BY <2>1, <2>3, <2>4 DEF Statement!Asked, Statement!Taken
    <3>4. withheld' => truncated' \/ provider' = "snowflake"
      BY <2>1, StatementAssumption DEF ControlInv, StatementTypeOK, Statement!TypeOK
    <3> QED
      BY <2>1, <3>1, <3>2, <3>3, <3>4 DEF CompleteRows
  <2> QED
    BY <2>1, <2>2, <2>3, <2>5 DEF CollectInv, CompleteRows, CompleteUnlessTruncated, Statement!CompleteUnlessTruncated
<1> QED
  BY <1>2, <1>3, <1>4, <1>5, <1>6, <1>7, <1>8, <1>9
     DEF Statement!Next, Statement!ClientStep, Statement!SubmitDatabricks, Statement!SubmitSnowflake, Statement!SubmitBigQuery,
         Statement!PollDatabricks, Statement!PollSnowflake, Statement!PollBigQuery,
         Statement!ResultDatabricks, Statement!PartitionsSnowflake, Statement!PagesBigQuery

\* One execute_sql call, for every result the warehouse may hand out and every
\* limit: the statement is started at most once; a call that leaves it running ends
\* with an error after an exchange that failed, with a timeout after a failed
\* cancel, or was dropped; the rows of an answer are a beginning of the statement's
\* rows within the limits; an answer without the mark has every row of the chunks
\* the client asks for, all chunks but with Databricks, and is not cut by the
\* warehouse but with Snowflake; and no complete answer is marked.
THEOREM StatementCorrect == Statement!Spec => []StatementSound
<1>1. Statement!Init => ControlInv /\ CollectInv
  <2> SUFFICES ASSUME Statement!Init PROVE ControlInv /\ CollectInv
    OBVIOUS
  <2>1. Len(shape) \in Nat
    BY StatementAssumption DEF Statement!Init
  <2>2. ControlInv
    <3>1. StatementTypeOK
      <4>1. \A n \in Nat : 0 \in 0 .. n /\ 1 \in 1 .. n + 1
        OBVIOUS
      <4>2. next \in 1 .. Len(shape) + 1 /\ fetched \in 0 .. Len(shape)
        BY <2>1, <4>1, Zenon DEF Statement!Init
      <4>3. elapsed \in 0 .. MaxPoll /\ tries \in 0 .. GetRetries
        BY <4>1, StatementAssumption, Zenon DEF Statement!Init
      <4>4. /\ provider \in Providers /\ shape \in Shapes /\ job = "none" /\ executions = 0 /\ pc = "submit"
            /\ truncated = FALSE /\ failed = "none" /\ outcome = "none"
        BY DEF Statement!Init
      <4> QED
        BY <4>2, <4>3, <4>4 DEF StatementTypeOK, Statement!TypeOK
    <3>2. StartedOnce /\ NoOrphan
      BY DEF Statement!Init, StartedOnce, Statement!StartedOnce, NoOrphan, Statement!NoOrphan
    <3> QED
      BY <3>1, <3>2 DEF Statement!Init, ControlInv
  <2>3. Statement!RowLimit \in Nat
    BY LimitKept DEF Statement!Init
  <2>4. rows \in Seq(Nat \X Nat) /\ Len(rows) = 0
    BY DEF Statement!Init
  <2>5. CollectInv
    BY <2>3, <2>4 DEF Statement!Init, CollectInv, CompleteUnlessTruncated, Statement!CompleteUnlessTruncated
  <2> QED
    BY <2>2, <2>5
<1>2. ControlInv /\ CollectInv => StatementSound
  <2> SUFFICES ASSUME ControlInv, CollectInv PROVE StatementSound
    OBVIOUS
  <2>1. TruncatedIsShort
    BY DEF CollectInv, Collected, TruncatedIsShort, Statement!TruncatedIsShort
  <2>2. RowsBounded
    <3>1. Statement!RowLimit \in Nat /\ (maxRows > 0 => Statement!RowLimit <= maxRows) /\ maxRows \in Nat
      BY LimitKept, StatementAssumption DEF ControlInv
    <3>2. Len(rows) \in Nat /\ Len(rows) <= Statement!RowLimit
      BY DEF CollectInv
    <3> QED
      BY <3>1, <3>2 DEF RowsBounded, Statement!RowsBounded
  <2> QED
    BY <2>1, <2>2 DEF StatementSound, ControlInv, CollectInv
<1> QED
  BY <1>1, <1>2, ControlStep, CollectStep, PTL DEF Statement!Spec

-----------------------------------------------------------------------------
\* In the composed specification, which the run explores, a step of one part
\* leaves the others, so each part behaves by its own specification and all of the
\* properties hold together, for every value of the constants.
THEOREM WarehouseCorrect == MCSpec => [](StatementSound /\ PoolSound) /\ TokensFresh
<1>1. MCInit => Statement!Init /\ Pool!Init /\ Tokens!Init
  BY DEF MCInit
<1>2. [MCNext]_mcVars => /\ [Statement!Next]_(Statement!vars)
                         /\ [Pool!Next]_(Pool!vars) /\ [Tokens!Next]_(Tokens!vars)
  BY DEF MCNext, mcVars, stmtVars, poolVars, tokenVars, Statement!vars, Statement!call, Statement!collected,
     Pool!vars, Tokens!vars
<1>3. MCSpec => Statement!Spec /\ Pool!Spec /\ Tokens!Spec
  BY <1>1, <1>2, PTL DEF MCSpec, Statement!Spec, Pool!Spec, Tokens!Spec
<1> QED
  BY <1>3, StatementCorrect, PoolCorrect, TokensCorrect, PTL

=============================================================================
