--------------------------- MODULE NodeClientProofs ---------------------------
(***************************************************************************)
(* Two safety properties of NodeClient, for any number of tasks, blocks,   *)
(* attempts, faults and cookies: the block a task has is the one it asked  *)
(* for, and a tunnel is made for a fault only.                             *)
(***************************************************************************)
EXTENDS NodeClient, TLAPS, FiniteSetTheorems

(* The steps between taking the tunnel's lock and giving it back. *)
Locking == {"connect", "auth", "reading", "send", "refused", "answer"}
Steps == Locking \cup {"idle", "ask", "done", "failed"}

CallType ==
  [pc : Steps, stage : {"hash", "body"}, tries : Nat, tunnel : Nat, sent : Nat,
   answer : Blocks \cup {Nobody}, hash : Blocks \cup {Nobody}, body : Blocks \cup {Nobody}]
GuardType == [by : Callers \cup {Nobody}, tunnel : Nat]
CacheType == [content : Nat, refresh : BOOLEAN, by : Callers \cup {Nobody}]

ClientTypeOK ==
  /\ conf \in [tunnel : BOOLEAN, cookie : BOOLEAN]
  /\ best \in Blocks /\ cookie \in Nat /\ faults \in Nat
  /\ call \in [Callers -> CallType] /\ guard \in GuardType /\ cache \in CacheType
  /\ live \subseteq Nat \ {None} /\ IsFiniteSet(listeners)

Inside(c) == call[c].pc \in Locking

(* The lock is held by the one task that is inside. *)
Locked == conf.tunnel => \A c \in Callers : Inside(c) <=> guard.by = c

(* The task inside uses the tunnel that is kept, if one is. *)
TunnelShared ==
  \A c \in Callers :
    /\ call[c].pc \in {"idle", "ask", "connect"} => call[c].tunnel = None
    /\ conf.tunnel /\ Inside(c) /\ call[c].pc # "connect" /\ guard.tunnel # None
         => call[c].tunnel = guard.tunnel

(* A tunnel that works and that some request will find. *)
Usable ==
  \/ guard.tunnel \in live
  \/ \E c \in Callers : Inside(c) /\ call[c].tunnel \in live

(* Without a usable tunnel every tunnel made is accounted for by a fault. *)
Account ==
  /\ ~conf.tunnel => listeners = {}
  /\ Cardinality(listeners) \in Nat
  /\ Cardinality(listeners) <= 1 + faults
  /\ Usable \/ Cardinality(listeners) <= faults

Frame == ClientTypeOK /\ Locked /\ TunnelShared /\ BlockIsTheOneNamed

ClientInv == Frame /\ Account

(* What a step of one task must respect for Frame: the types, the lock,    *)
(* the shared tunnel, the check of the body.                               *)
LEMMA FrameStep ==
  ASSUME Frame, NEW c \in Callers, NEW k \in CallType,
         call' = [call EXCEPT ![c] = k],
         conf' = conf, best' \in Blocks, cookie' \in Nat, faults' \in Nat,
         guard' \in GuardType, cache' \in CacheType,
         live' \subseteq Nat \ {None}, IsFiniteSet(listeners'),
         k.pc = "done" => k.body = k.hash,
         k.pc \in {"idle", "ask", "connect"} => k.tunnel = None,
         conf.tunnel => k.pc \in Locking <=> guard'.by = c,
         conf.tunnel => \A x \in Callers \ {c} : guard'.by = x <=> guard.by = x,
         conf.tunnel /\ k.pc \in Locking \ {"connect"} /\ guard'.tunnel # None
           => k.tunnel = guard'.tunnel,
         conf.tunnel => Inside(c) \/ guard'.tunnel = guard.tunnel
  PROVE  Frame'
<1>1. call'[c] = k /\ \A x \in Callers \ {c} : call'[x] = call[x]
  BY DEF Frame, ClientTypeOK
<1>2. ClientTypeOK' BY DEF Frame, ClientTypeOK
<1>3. Locked' BY <1>1 DEF Frame, Locked, Inside
<1>4. BlockIsTheOneNamed' BY <1>1 DEF Frame, BlockIsTheOneNamed, At
<1>5. ASSUME NEW x \in Callers \ {c}, conf.tunnel, Inside(x), guard.tunnel # guard'.tunnel
      PROVE  FALSE
  BY <1>5 DEF Frame, Locked
<1>6. TunnelShared'
  <2> SUFFICES ASSUME NEW x \in Callers
      PROVE  /\ call'[x].pc \in {"idle", "ask", "connect"} => call'[x].tunnel = None
             /\ conf.tunnel /\ call'[x].pc \in Locking \ {"connect"} /\ guard'.tunnel # None
                  => call'[x].tunnel = guard'.tunnel
    BY DEF TunnelShared, Inside
  <2>1. CASE x = c BY <1>1, <2>1
  <2>2. CASE x # c BY <1>1, <1>5, <2>2 DEF Frame, TunnelShared, Inside
  <2> QED BY <2>1, <2>2
<1> QED BY <1>2, <1>3, <1>4, <1>6 DEF Frame

(* The books stay balanced when a fault explains the step, ... *)
LEMMA FaultAccounts ==
  ASSUME ClientInv, faults' = faults + 1, UNCHANGED <<conf, listeners>>
  PROVE  Account'
BY DEF ClientInv, Frame, ClientTypeOK, Account

(* ... when it loses no usable tunnel, ... *)
LEMMA UsableAccounts ==
  ASSUME ClientInv, UNCHANGED <<conf, listeners, faults>>, conf.tunnel /\ Usable => Usable'
  PROVE  Account'
<1>1. CASE conf.tunnel BY <1>1 DEF ClientInv, Account
<1>2. CASE ~conf.tunnel
  <2>1. listeners = {} /\ Cardinality(listeners) = 0
    BY <1>2, FS_EmptySet DEF ClientInv, Account
  <2> QED BY <1>2, <2>1 DEF ClientInv, Frame, ClientTypeOK, Account
<1> QED BY <1>1, <1>2

(* The same for a step that touches one task and nothing that is shared    *)
(* but the cookie's cache. *)
LEMMA PrivateStep ==
  ASSUME ClientInv, NEW c \in Callers, NEW k \in CallType,
         call' = [call EXCEPT ![c] = k],
         UNCHANGED <<conf, best, cookie, guard, live, listeners>>,
         faults' = faults \/ faults' = faults + 1, cache' \in CacheType,
         k.pc = "done" => k.body = k.hash,
         k.pc \in {"idle", "ask", "connect"} => k.tunnel = None,
         k.pc \in Locking <=> Inside(c),
         Inside(c) => \/ call[c].pc # "connect" /\ k.tunnel = call[c].tunnel
                      \/ call[c].tunnel = None /\ k.tunnel = guard.tunnel
  PROVE  ClientInv'
<1>1. call'[c] = k /\ \A x \in Callers \ {c} : call'[x] = call[x]
  BY DEF ClientInv, Frame, ClientTypeOK
<1>2. conf.tunnel /\ Inside(c) /\ guard.tunnel # None => k.tunnel = guard.tunnel
  BY DEF ClientInv, Frame, TunnelShared
<1>3. Frame'
  <2>1. Frame BY DEF ClientInv
  <2>2. /\ conf' = conf /\ best' \in Blocks /\ cookie' \in Nat /\ faults' \in Nat
        /\ guard' \in GuardType /\ live' \subseteq Nat \ {None} /\ IsFiniteSet(listeners')
    BY <2>1 DEF Frame, ClientTypeOK
  <2>3. conf.tunnel => k.pc \in Locking <=> guard'.by = c BY <2>1 DEF Frame, Locked
  <2>4. guard' = guard OBVIOUS
  <2> QED BY <1>2, <2>1, <2>2, <2>3, <2>4, FrameStep
<1>4. Account'
  <2>1. Usable => Usable'
    <3>1. None \notin live BY DEF ClientInv, Frame, ClientTypeOK
    <3>2. CASE guard.tunnel \in live BY <3>2 DEF Usable
    <3>3. ASSUME NEW x \in Callers, Inside(x), call[x].tunnel \in live
          PROVE  Usable'
      BY <1>1, <3>1, <3>3 DEF Usable, Inside
    <3> QED BY <3>2, <3>3 DEF Usable
  <2> QED BY <2>1, UsableAccounts, FaultAccounts
<1> QED BY <1>3, <1>4 DEF ClientInv

(* The steps of that kind: the cookie, what the node answers, ... *)
LEMMA CookieKeeps ==
  ASSUME ClientInv, NEW c \in Callers,
         \/ Authenticate(c) \/ CachedCookie(c) \/ ReadCookie(c) \/ StoreCookie(c)
         \/ Refused(c) \/ Reuse(c)
  PROVE  ClientInv'
<1>1. /\ call \in [Callers -> CallType] /\ cache \in CacheType /\ cookie \in Nat
      /\ guard \in GuardType /\ call[c] \in CallType
      /\ call[c].pc = "connect" => call[c].tunnel = None
  BY DEF ClientInv, Frame, ClientTypeOK, TunnelShared
<1>2. CASE Authenticate(c)
  <2> DEFINE k == [call[c] EXCEPT !.pc = "send"]
  <2>1. k \in CallType /\ k.pc = "send" /\ k.tunnel = call[c].tunnel
    BY <1>1 DEF CallType, Steps, Locking
  <2>2. call' = [call EXCEPT ![c] = k] BY <1>1, <1>2 DEF Authenticate, Goes
  <2>3. Inside(c) /\ call[c].pc # "connect" BY <1>2 DEF Authenticate, At, Inside, Locking
  <2> HIDE DEF k
  <2> QED BY <1>1, <1>2, <2>1, <2>2, <2>3, PrivateStep DEF Authenticate, env, Locking
<1>3. CASE CachedCookie(c)
  <2> DEFINE k == [call[c] EXCEPT !.pc = "send", !.sent = cache.content]
  <2>1. k \in CallType /\ k.pc = "send" /\ k.tunnel = call[c].tunnel
    BY <1>1 DEF CallType, CacheType, Steps, Locking
  <2>2. call' = [call EXCEPT ![c] = k] BY <1>1, <1>3 DEF CachedCookie
  <2>3. Inside(c) /\ call[c].pc # "connect" BY <1>3 DEF CachedCookie, At, Inside, Locking
  <2> HIDE DEF k
  <2> QED BY <1>1, <1>3, <2>1, <2>2, <2>3, PrivateStep DEF CachedCookie, env, Locking
<1>4. CASE ReadCookie(c)
  <2> DEFINE k == [call[c] EXCEPT !.pc = "reading", !.sent = cookie]
  <2>1. k \in CallType /\ k.pc = "reading" /\ k.tunnel = call[c].tunnel
    BY <1>1 DEF CallType, Steps, Locking
  <2>2. call' = [call EXCEPT ![c] = k] BY <1>1, <1>4 DEF ReadCookie
  <2>3. Inside(c) /\ call[c].pc # "connect" BY <1>4 DEF ReadCookie, At, Inside, Locking
  <2>4. cache' \in CacheType BY <1>1, <1>4 DEF ReadCookie, CacheType
  <2> HIDE DEF k
  <2> QED BY <1>4, <2>1, <2>2, <2>3, <2>4, PrivateStep DEF ReadCookie, env, Locking
<1>5. CASE StoreCookie(c)
  <2> DEFINE k == [call[c] EXCEPT !.pc = "send"]
  <2>1. k \in CallType /\ k.pc = "send" /\ k.tunnel = call[c].tunnel
    BY <1>1 DEF CallType, Steps, Locking
  <2>2. call' = [call EXCEPT ![c] = k] BY <1>1, <1>5 DEF StoreCookie, Goes
  <2>3. Inside(c) /\ call[c].pc # "connect" BY <1>5 DEF StoreCookie, At, Inside, Locking
  <2>4. cache' \in CacheType BY <1>1, <1>5 DEF StoreCookie, CacheType, CallType
  <2> HIDE DEF k
  <2> QED BY <1>5, <2>1, <2>2, <2>3, <2>4, PrivateStep DEF StoreCookie, env, Locking
<1>6. CASE Refused(c)
  <2> DEFINE k == [call[c] EXCEPT !.pc = "refused"]
  <2>1. k \in CallType /\ k.pc = "refused" /\ k.tunnel = call[c].tunnel
    BY <1>1 DEF CallType, Steps, Locking
  <2>2. call' = [call EXCEPT ![c] = k] BY <1>1, <1>6 DEF Refused, Goes
  <2>3. Inside(c) /\ call[c].pc # "connect" BY <1>6 DEF Refused, At, Inside, Locking
  <2> HIDE DEF k
  <2> QED BY <1>1, <1>6, <2>1, <2>2, <2>3, PrivateStep DEF Refused, env, Locking
<1>7. CASE Reuse(c)
  <2> DEFINE k == [call[c] EXCEPT !.pc = "auth", !.tunnel = guard.tunnel]
  <2>1. k \in CallType /\ k.pc = "auth" /\ k.tunnel = guard.tunnel
    BY <1>1 DEF CallType, GuardType, Steps, Locking
  <2>2. call' = [call EXCEPT ![c] = k] BY <1>1, <1>7 DEF Reuse
  <2>3. Inside(c) /\ call[c].tunnel = None BY <1>1, <1>7 DEF Reuse, At, Inside, Locking
  <2> HIDE DEF k
  <2> QED BY <1>1, <1>7, <2>1, <2>2, <2>3, PrivateStep DEF Reuse, env, Locking
<1> QED BY <1>2, <1>3, <1>4, <1>5, <1>6, <1>7

(* ... a request that begins, an answer, a request that is over. *)
LEMMA CallsKeep ==
  ASSUME ClientInv, NEW c \in Callers,
         Begin(c) \/ NodeAnswers(c) \/ WrongBody(c) \/ Return(c)
  PROVE  ClientInv'
<1>1. /\ call \in [Callers -> CallType] /\ cache \in CacheType /\ cookie \in Nat
      /\ call[c] \in CallType /\ best \in Blocks /\ faults \in Nat
  BY DEF ClientInv, Frame, ClientTypeOK
<1>2. CASE Begin(c)
  <2> DEFINE k == Asking("hash", Nobody)
  <2>1. k \in CallType /\ k.pc = "ask" /\ k.tunnel = None
    BY DEF Asking, None, CallType, Steps, Locking
  <2>2. call' = [call EXCEPT ![c] = k] BY <1>2 DEF Begin
  <2>3. ~Inside(c) BY <1>2 DEF Begin, At, Inside, Locking
  <2> HIDE DEF k
  <2> QED BY <1>1, <1>2, <2>1, <2>2, <2>3, PrivateStep DEF Begin, env, Locking
<1>3. CASE Return(c)
  <2>1. Idle \in CallType /\ Idle.pc = "idle" /\ Idle.tunnel = None
    BY DEF Idle, Asking, None, CallType, Steps, Locking
  <2>2. call' = [call EXCEPT ![c] = Idle] BY <1>3 DEF Return
  <2>3. ~Inside(c) BY <1>3 DEF Return, At, Inside, Locking
  <2> QED BY <1>1, <1>3, <2>1, <2>2, <2>3, PrivateStep DEF Return, env, Locking
<1>4. ASSUME NEW a \in Blocks \cup {Nobody}, Answer(c, a), faults' = faults \/ faults' = faults + 1,
             UNCHANGED <<conf, best, cookie>>
      PROVE  ClientInv'
  <2> DEFINE k == [call[c] EXCEPT !.pc = "answer", !.answer = a]
  <2>1. k \in CallType /\ k.pc = "answer" /\ k.tunnel = call[c].tunnel
    BY <1>1 DEF CallType, Steps, Locking
  <2>2. call' = [call EXCEPT ![c] = k] BY <1>1, <1>4 DEF Answer
  <2>3. Inside(c) /\ call[c].pc # "connect" BY <1>4 DEF Answer, At, Inside, Locking
  <2> HIDE DEF k
  <2> QED BY <1>1, <1>4, <2>1, <2>2, <2>3, PrivateStep DEF Answer, Locking
<1>5. CASE NodeAnswers(c)
  <2>1. (IF call[c].stage = "hash" THEN best ELSE call[c].hash) \in Blocks \cup {Nobody}
    BY <1>1 DEF CallType
  <2> QED BY <1>4, <1>5, <2>1 DEF NodeAnswers, env
<1>6. CASE WrongBody(c)
  <2>1. PICK b \in Blocks : Answer(c, b) BY <1>6 DEF WrongBody
  <2> QED BY <1>4, <1>6, <2>1 DEF WrongBody, Fault
<1> QED BY <1>2, <1>3, <1>5, <1>6

(* A task takes the tunnel's lock. *)
LEMMA EnterKeeps ==
  ASSUME ClientInv, NEW c \in Callers, Enter(c)
  PROVE  ClientInv'
<1> DEFINE k == [call[c] EXCEPT !.pc = "connect"]
<1>1. /\ call \in [Callers -> CallType] /\ call[c] \in CallType /\ guard \in GuardType
      /\ call[c].pc = "ask" /\ call[c].tunnel = None /\ ~Inside(c) /\ Nobody \notin Callers
  BY ClientAssumption DEF ClientInv, Frame, ClientTypeOK, TunnelShared, Enter, At, Inside, Locking
<1>2. k \in CallType /\ k.pc = "connect" /\ k.tunnel = None
  BY <1>1 DEF CallType, Steps, Locking
<1>3. call' = [call EXCEPT ![c] = k] BY <1>1 DEF Enter, Goes
<1> HIDE DEF k
<1>4. /\ UNCHANGED <<conf, best, cookie, faults, breaks, live, listeners, cache>>
      /\ guard' \in GuardType /\ guard'.tunnel = guard.tunnel
      /\ conf.tunnel => guard.by = Nobody /\ guard'.by = c
  BY <1>1 DEF Enter, env, GuardType
<1>5. Frame'
  <2>1. Frame BY DEF ClientInv
  <2>2. \A x \in Callers \ {c} : conf.tunnel => (guard'.by = x <=> guard.by = x) BY <1>1, <1>4
  <2>3. /\ conf' = conf /\ best' \in Blocks /\ cookie' \in Nat /\ faults' \in Nat
        /\ cache' \in CacheType /\ live' \subseteq Nat \ {None} /\ IsFiniteSet(listeners')
    BY <1>4, <2>1 DEF Frame, ClientTypeOK
  <2> QED BY <1>2, <1>3, <1>4, <2>1, <2>2, <2>3, FrameStep DEF Locking
<1>6. Usable => Usable'
  <2>1. \A x \in Callers \ {c} : call'[x] = call[x] BY <1>1, <1>3
  <2> QED BY <1>1, <1>4, <2>1 DEF Usable, Inside
<1> QED BY <1>4, <1>5, <1>6, UsableAccounts DEF ClientInv

(* A new tunnel is made only when none is usable: only the task that holds *)
(* the lock makes one, and no tunnel is kept. *)
LEMMA CreateKeeps ==
  ASSUME ClientInv, NEW c \in Callers, Create(c)
  PROVE  ClientInv'
<1> DEFINE t == Cardinality(listeners) + 1
           k == [call[c] EXCEPT !.pc = "auth", !.tunnel = t]
<1>1. /\ call \in [Callers -> CallType] /\ call[c] \in CallType /\ guard \in GuardType
      /\ call[c].pc = "connect" /\ call[c].tunnel = None /\ Inside(c)
      /\ conf.tunnel /\ guard.tunnel = None /\ guard' = guard
  BY DEF ClientInv, Frame, ClientTypeOK, TunnelShared, Create, At, Inside, Locking
<1>2. /\ Cardinality(listeners) \in Nat /\ IsFiniteSet(listeners) /\ faults \in Nat
      /\ live \subseteq Nat \ {None} /\ t \in Nat \ {None}
  BY DEF ClientInv, Frame, ClientTypeOK, Account, None
<1>3. /\ listeners' = listeners \cup {t} /\ live' = live \cup {t}
      /\ UNCHANGED <<conf, best, cookie, faults, breaks, cache>>
  BY DEF Create, env
<1>4. k \in CallType /\ k.pc = "auth" /\ k.tunnel = t
  BY <1>1, <1>2 DEF CallType, Steps, Locking
<1>5. call' = [call EXCEPT ![c] = k] BY <1>1 DEF Create
<1> HIDE DEF k
<1>6. /\ IsFiniteSet(listeners') /\ Cardinality(listeners') \in Nat
      /\ Cardinality(listeners') <= Cardinality(listeners) + 1
  <2>1. CASE t \in listeners
    <3>1. listeners' = listeners BY <1>3, <2>1
    <3> QED BY <1>2, <3>1
  <2>2. CASE t \notin listeners
    <3>1. IsFiniteSet(listeners') /\ Cardinality(listeners') = Cardinality(listeners) + 1
      BY <1>2, <1>3, <2>2, FS_AddElement
    <3> QED BY <1>2, <3>1
  <2> QED BY <2>1, <2>2
<1>7. Frame'
  <2>1. Frame BY DEF ClientInv
  <2>2. /\ conf' = conf /\ best' \in Blocks /\ cookie' \in Nat /\ faults' \in Nat
        /\ cache' \in CacheType /\ live' \subseteq Nat \ {None}
    BY <1>2, <1>3, <2>1 DEF Frame, ClientTypeOK
  <2>3. conf.tunnel => k.pc \in Locking <=> guard'.by = c
    BY <1>1, <1>4, <2>1 DEF Frame, Locked, Locking
  <2> QED BY <1>1, <1>4, <1>5, <1>6, <2>1, <2>2, <2>3, FrameStep
<1>8. ~Usable
  <2>1. \A x \in Callers \ {c} : ~Inside(x) BY <1>1 DEF ClientInv, Frame, Locked
  <2> QED BY <1>1, <1>2, <2>1 DEF Usable
<1>9. Cardinality(listeners) <= faults BY <1>8 DEF ClientInv, Account
<1>10. Usable'
  <2>1. call'[c].tunnel \in live' /\ call'[c].pc \in Locking BY <1>1, <1>3, <1>4, <1>5 DEF Locking
  <2> QED BY <2>1 DEF Usable, Inside
<1>11. Account'
  BY <1>1, <1>2, <1>3, <1>6, <1>9, <1>10 DEF Account
<1> QED BY <1>7, <1>11 DEF ClientInv

(* After an attempt that failed, with the tunnel that is kept, the task    *)
(* tries again with the lock or gives both up. *)
LEMMA AgainFrame ==
  ASSUME ClientInv, NEW c \in Callers, NEW t \in Nat, Inside(c), Again(c, t),
         UNCHANGED <<conf, best, cookie, live, listeners>>,
         faults' \in Nat, cache' \in CacheType
  PROVE  Frame' /\ guard'.tunnel = t
<1>1. /\ Frame /\ call \in [Callers -> CallType] /\ call[c] \in CallType
      /\ guard \in GuardType
      /\ conf.tunnel => guard.by = c
  BY DEF ClientInv, Frame, ClientTypeOK, Locked
<1>2. /\ conf' = conf /\ best' \in Blocks /\ cookie' \in Nat
      /\ live' \subseteq Nat \ {None} /\ IsFiniteSet(listeners')
  BY <1>1 DEF Frame, ClientTypeOK
<1>3. CASE call[c].tries + 1 < Attempts
  <2> DEFINE k == [call[c] EXCEPT !.pc = "connect", !.tries = @ + 1,
                                  !.tunnel = None, !.sent = None]
  <2>1. k \in CallType /\ k.pc = "connect" /\ k.tunnel = None
    <3>1. call[c].tries + 1 \in Nat /\ None \in Nat BY <1>1 DEF CallType, None
    <3> QED BY <1>1, <3>1 DEF CallType, Steps, Locking
  <2>2. call' = [call EXCEPT ![c] = k] BY <1>1, <1>3 DEF Again
  <2> HIDE DEF k
  <2>3. guard' \in GuardType /\ guard'.tunnel = t /\ guard'.by = guard.by
    BY <1>1, <1>3 DEF Again, GuardType
  <2>4. Frame' BY <1>1, <1>2, <2>1, <2>2, <2>3, FrameStep DEF Locking
  <2> QED BY <2>3, <2>4
<1>4. CASE ~(call[c].tries + 1 < Attempts)
  <2> DEFINE k == [call[c] EXCEPT !.pc = "failed"]
  <2>1. k \in CallType /\ k.pc = "failed" BY <1>1 DEF CallType, Steps, Locking
  <2>2. call' = [call EXCEPT ![c] = k] BY <1>1, <1>4 DEF Again, Goes
  <2> HIDE DEF k
  <2>3. /\ guard' \in GuardType /\ guard'.tunnel = t
        /\ conf.tunnel => guard'.by = Nobody
    BY <1>1, <1>4 DEF Again, Freed, GuardType
  <2>4. Frame'
    <3>1. Nobody \notin Callers BY ClientAssumption
    <3> QED BY <1>1, <1>2, <2>1, <2>2, <2>3, <3>1, FrameStep DEF Locking
  <2> QED BY <2>3, <2>4
<1> QED BY <1>3, <1>4

(* What is kept after a response is the tunnel it came through, so it      *)
(* stays usable. *)
LEMMA KeptFacts ==
  ASSUME ClientInv, NEW c \in Callers, Inside(c), call[c].pc # "connect"
  PROVE  /\ Kept(c) \in Nat
         /\ conf.tunnel /\ Usable => Kept(c) \in live
<1>1. /\ call[c] \in CallType /\ guard \in GuardType /\ None \notin live
      /\ conf.tunnel => \A x \in Callers \ {c} : ~Inside(x)
      /\ conf.tunnel /\ guard.tunnel # None => call[c].tunnel = guard.tunnel
  BY DEF ClientInv, Frame, ClientTypeOK, Locked, TunnelShared
<1>2. Kept(c) \in Nat BY <1>1 DEF Kept, CallType, GuardType
<1>3. ASSUME conf.tunnel, Usable PROVE Kept(c) \in live
  <2>1. Kept(c) = IF guard.tunnel = None THEN call[c].tunnel ELSE guard.tunnel
    BY <1>3 DEF Kept
  <2> QED BY <1>1, <1>3, <2>1 DEF Usable
<1> QED BY <1>2, <1>3

(* A fault ends an attempt; the tunnel is forgotten unless something came  *)
(* back through it. *)
LEMMA FailuresKeep ==
  ASSUME ClientInv, NEW c \in Callers,
         CreateFails(c) \/ ReadFails(c) \/ Garbled(c) \/ SendFails(c)
  PROVE  ClientInv'
<1>1. /\ cache \in CacheType /\ faults \in Nat /\ None \in Nat /\ Forgotten = None
      /\ Nobody \in Callers \cup {Nobody}
  BY DEF ClientInv, Frame, ClientTypeOK, None, Forgotten
<1>2. Inside(c)
  BY DEF CreateFails, ReadFails, Garbled, SendFails, At, Inside, Locking
<1>3. faults' = faults + 1 /\ faults' \in Nat
  BY <1>1 DEF CreateFails, ReadFails, Garbled, SendFails, Fault
<1>4. UNCHANGED <<conf, best, cookie, live, listeners>>
  BY DEF CreateFails, ReadFails, Garbled, SendFails
<1>5. cache' \in CacheType
  BY <1>1 DEF CreateFails, ReadFails, Garbled, SendFails, CacheType
<1>6. \E t \in Nat : Again(c, t)
  <2>1. CASE Garbled(c)
    <3>1. call[c].pc # "connect" BY <2>1 DEF Garbled, At
    <3>2. Kept(c) \in Nat BY <1>2, <3>1, KeptFacts
    <3> QED BY <2>1, <3>2 DEF Garbled
  <2>2. CASE CreateFails(c) \/ ReadFails(c) \/ SendFails(c)
    BY <1>1, <2>2 DEF CreateFails, ReadFails, SendFails, Fails
  <2> QED BY <2>1, <2>2
<1>7. Frame' BY <1>2, <1>3, <1>4, <1>5, <1>6, AgainFrame
<1>8. Account' BY <1>3, <1>4, FaultAccounts
<1> QED BY <1>7, <1>8 DEF ClientInv

(* A refused cookie, a body cut short: the tunnel is kept. *)
LEMMA RefreshKeeps ==
  ASSUME ClientInv, NEW c \in Callers, Refresh(c) \/ CutShort(c)
  PROVE  ClientInv'
<1>1. /\ cache \in CacheType /\ faults \in Nat
      /\ Inside(c) /\ call[c].pc # "connect"
  BY DEF ClientInv, Frame, ClientTypeOK, Refresh, CutShort, At, Inside, Locking
<1>2. UNCHANGED <<conf, best, cookie, faults, breaks, live, listeners>> BY DEF Refresh, CutShort, env
<1>3. cache' \in CacheType BY <1>1 DEF Refresh, CutShort, CacheType, Marked
<1>4. Again(c, Kept(c)) BY DEF Refresh, CutShort
<1>5. Kept(c) \in Nat /\ (conf.tunnel /\ Usable => Kept(c) \in live) BY <1>1, KeptFacts
<1>6. Frame' /\ guard'.tunnel = Kept(c) BY <1>1, <1>2, <1>3, <1>4, <1>5, AgainFrame
<1>7. Account'
  <2>1. conf.tunnel /\ Usable => Usable' BY <1>2, <1>5, <1>6 DEF Usable
  <2> QED BY <1>2, <2>1, UsableAccounts
<1> QED BY <1>6, <1>7 DEF ClientInv

(* A tunnel found broken was the one kept: nothing usable is lost. *)
LEMMA TunnelGoneKeeps ==
  ASSUME ClientInv, NEW c \in Callers, TunnelGone(c)
  PROVE  ClientInv'
<1>1. /\ cache \in CacheType /\ faults \in Nat /\ None \in Nat /\ None \notin live
      /\ Inside(c) /\ call[c].pc # "connect" /\ conf.tunnel /\ call[c].tunnel \notin live
  BY DEF ClientInv, Frame, ClientTypeOK, TunnelGone, At, Inside, Locking, None
<1>2. UNCHANGED <<conf, best, cookie, faults, breaks, live, listeners, cache>> BY DEF TunnelGone, env
<1>3. Again(c, None) BY DEF TunnelGone, Fails, Forgotten
<1>4. Frame' BY <1>1, <1>2, <1>3, AgainFrame
<1>5. ~Usable
  <2>1. guard.tunnel \notin live BY <1>1 DEF ClientInv, Frame, TunnelShared
  <2>2. \A x \in Callers \ {c} : ~Inside(x) BY <1>1 DEF ClientInv, Frame, Locked
  <2> QED BY <1>1, <2>1, <2>2 DEF Usable
<1>6. Account' BY <1>2, <1>5, UsableAccounts
<1> QED BY <1>4, <1>6 DEF ClientInv

(* A response gives the lock back and keeps the tunnel; the body is handed *)
(* on if it is the one of the hash. *)
LEMMA ResponseKeeps ==
  ASSUME ClientInv, NEW c \in Callers, Receive(c) \/ Missing(c)
  PROVE  ClientInv'
<1>1. /\ Frame /\ call \in [Callers -> CallType] /\ call[c] \in CallType
      /\ guard \in GuardType /\ faults \in Nat /\ Nobody \notin Callers
      /\ Inside(c) /\ call[c].pc # "connect"
      /\ conf.tunnel => guard.by = c
  BY ClientAssumption
     DEF ClientInv, Frame, ClientTypeOK, Locked, Receive, Missing, At, Inside, Locking
<1>2. Kept(c) \in Nat /\ (conf.tunnel /\ Usable => Kept(c) \in live) BY <1>1, KeptFacts
<1>3. guard' = [Freed EXCEPT !.tunnel = Kept(c)] BY DEF Receive, Missing
<1>4. /\ guard' \in GuardType /\ guard'.tunnel = Kept(c)
      /\ conf.tunnel => guard'.by = Nobody
  BY <1>1, <1>2, <1>3 DEF Freed, GuardType
<1>5. /\ UNCHANGED <<conf, best, cookie, live, listeners, cache>>
      /\ faults' = faults \/ faults' = faults + 1
  BY DEF Receive, Missing, env, Fault
<1>6. \E k \in CallType :
        /\ call' = [call EXCEPT ![c] = k] /\ k.pc \in {"ask", "done", "failed"}
        /\ k.pc = "done" => k.body = k.hash
        /\ k.pc = "ask" => k.tunnel = None
  <2>1. CASE Goes(c, "failed")
    <3> DEFINE k == [call[c] EXCEPT !.pc = "failed"]
    <3>1. k \in CallType /\ k.pc = "failed" BY <1>1 DEF CallType, Steps, Locking
    <3>2. call' = [call EXCEPT ![c] = k] BY <1>1, <2>1 DEF Goes
    <3> HIDE DEF k
    <3> QED BY <3>1, <3>2
  <2>2. CASE call' = [call EXCEPT ![c] = Asking("body", call[c].answer)]
    <3>1. /\ Asking("body", call[c].answer) \in CallType
          /\ Asking("body", call[c].answer).pc = "ask"
          /\ Asking("body", call[c].answer).tunnel = None
      BY <1>1 DEF Asking, None, CallType, Steps, Locking
    <3> QED BY <2>2, <3>1
  <2>3. CASE /\ Verified(call[c].hash, call[c].answer)
             /\ call' = [call EXCEPT ![c].pc = "done", ![c].body = call[c].answer]
    <3> DEFINE k == [call[c] EXCEPT !.pc = "done", !.body = call[c].answer]
    <3>1. k \in CallType /\ k.pc = "done" /\ k.body = call[c].answer /\ k.hash = call[c].hash
      BY <1>1 DEF CallType, Steps, Locking
    <3>2. call' = [call EXCEPT ![c] = k] BY <1>1, <2>3
    <3>3. call[c].hash = call[c].answer BY <2>3 DEF Verified
    <3> HIDE DEF k
    <3> QED BY <3>1, <3>2, <3>3
  <2> QED BY <2>1, <2>2, <2>3 DEF Receive, Missing
<1>7. Frame'
  <2>1. PICK k \in CallType :
          /\ call' = [call EXCEPT ![c] = k] /\ k.pc \in {"ask", "done", "failed"}
          /\ k.pc = "done" => k.body = k.hash
          /\ k.pc = "ask" => k.tunnel = None
    BY <1>6
  <2>2. /\ conf' = conf /\ best' \in Blocks /\ cookie' \in Nat /\ faults' \in Nat
        /\ cache' \in CacheType /\ live' \subseteq Nat \ {None} /\ IsFiniteSet(listeners')
    BY <1>1, <1>5 DEF Frame, ClientTypeOK
  <2>3. k.pc \notin Locking /\ (k.pc \in {"idle", "ask", "connect"} => k.tunnel = None)
    BY <2>1 DEF Locking
  <2> QED BY <1>1, <1>4, <2>1, <2>2, <2>3, FrameStep
<1>8. Account'
  <2>1. conf.tunnel /\ Usable => Usable' BY <1>2, <1>4, <1>5 DEF Usable
  <2> QED BY <1>5, <2>1, UsableAccounts, FaultAccounts
<1> QED BY <1>7, <1>8 DEF ClientInv

(* The node and the network. *)
LEMMA EnvironmentKeeps ==
  ASSUME ClientInv, Switch \/ Rotate \/ TunnelBreaks
  PROVE  ClientInv'
<1>1. faults \in Nat /\ cookie \in Nat BY DEF ClientInv, Frame, ClientTypeOK
<1>2. UNCHANGED <<conf, call, guard, listeners, cache>>
  BY DEF Switch, Rotate, TunnelBreaks
<1>3. /\ best' \in Blocks /\ cookie' \in Nat /\ faults' \in Nat
      /\ live' \subseteq live
  BY <1>1 DEF ClientInv, Frame, ClientTypeOK, Switch, Rotate, TunnelBreaks, Fault
<1>4. Frame'
  BY <1>2, <1>3 DEF ClientInv, Frame, ClientTypeOK, Locked, TunnelShared,
                    BlockIsTheOneNamed, Inside, At
<1>5. CASE Switch \/ TunnelBreaks
  <2>1. faults' = faults + 1 BY <1>5 DEF Switch, TunnelBreaks, Fault
  <2>2. Account' BY <1>2, <2>1, FaultAccounts
  <2> QED BY <1>4, <2>2 DEF ClientInv
<1>6. CASE Rotate
  <2>1. UNCHANGED <<faults, live>> BY <1>6 DEF Rotate
  <2>2. Usable => Usable' BY <1>2, <2>1 DEF Usable, Inside
  <2>3. Account' BY <1>2, <2>1, <2>2, UsableAccounts
  <2> QED BY <1>4, <2>3 DEF ClientInv
<1> QED BY <1>5, <1>6

(* The invariant of a client that has not asked for anything yet. *)
LEMMA ClientInvInitially == Init => ClientInv
<1> SUFFICES ASSUME Init PROVE ClientInv OBVIOUS
<1>1. Idle \in CallType /\ Idle.pc = "idle" /\ Idle.tunnel = None
  BY DEF Idle, Asking, None, CallType, Steps, Locking
<1>2. \A c \in Callers : call[c] = Idle BY DEF Init
<1>3. IsFiniteSet(listeners) /\ Cardinality(listeners) = 0 BY FS_EmptySet DEF Init
<1>4. ClientTypeOK
  BY <1>1, <1>3 DEF Init, ClientTypeOK, GuardType, CacheType, None
<1>5. Locked /\ TunnelShared /\ BlockIsTheOneNamed
  BY <1>1, <1>2, ClientAssumption
     DEF Init, Locked, TunnelShared, BlockIsTheOneNamed, At, Inside, Locking
<1>6. Account BY <1>3 DEF Init, Account
<1> QED BY <1>4, <1>5, <1>6 DEF ClientInv, Frame

(* Every step keeps the invariant. *)
LEMMA ClientInvKept == ClientInv /\ [Next]_vars => ClientInv'
<1> SUFFICES ASSUME ClientInv, [Next]_vars PROVE ClientInv' OBVIOUS
<1>1. CASE UNCHANGED vars
  BY <1>1 DEF vars, ClientInv, Frame, ClientTypeOK, Locked, TunnelShared,
              BlockIsTheOneNamed, Account, Usable, Inside, At
<1>2. CASE Switch \/ Rotate \/ TunnelBreaks BY <1>2, EnvironmentKeeps
<1>3. CASE \E c \in Callers : Works(c) \/ Enter(c) \/ UsesCookie(c) \/ Breaks(c)
  <2>1. PICK c \in Callers : Works(c) \/ Enter(c) \/ UsesCookie(c) \/ Breaks(c) BY <1>3
  <2>2. CASE Enter(c) BY <2>2, EnterKeeps
  <2>3. CASE UsesCookie(c) BY <2>3, CookieKeeps DEF UsesCookie
  <2>4. CASE Works(c)
    BY <2>4, CookieKeeps, CallsKeep, CreateKeeps, RefreshKeeps, TunnelGoneKeeps, ResponseKeeps
       DEF Works
  <2>5. CASE Breaks(c) BY <2>5, FailuresKeep, CallsKeep, ResponseKeeps DEF Breaks
  <2> QED BY <2>1, <2>2, <2>3, <2>4, <2>5
<1> QED BY <1>1, <1>2, <1>3 DEF Next

LEMMA ClientInvariant == Spec => []ClientInv
BY ClientInvInitially, ClientInvKept, PTL DEF Spec

(* The block a task hands on is the one whose hash it has, wherever the    *)
(* node switches, and however often it tries. *)
THEOREM ClientNamesItsBlock == Spec => []BlockIsTheOneNamed
<1>1. ClientInv => BlockIsTheOneNamed BY DEF ClientInv, Frame
<1> QED BY <1>1, ClientInvariant, PTL

(* Tunnels, whose listeners are never closed, are made one and one more    *)
(* for each fault, for any number of tasks and requests. *)
THEOREM ClientTunnelsBounded == Spec => []TunnelsBounded
<1>1. ClientInv => TunnelsBounded BY DEF ClientInv, Account, TunnelsBounded
<1> QED BY <1>1, ClientInvariant, PTL

-----------------------------------------------------------------------------
(***************************************************************************)
(* Every lost attempt has a cause.  A cookie that the node has replaced    *)
(* can cost a task one attempt when the task holds it and one more when    *)
(* the cache will hand it out again; a broken tunnel that is still held    *)
(* can cost one, and one more if a response is still to come through it;   *)
(* so does the body of another block.  Attempts lost and attempts that may *)
(* still be lost are paid for by faults and rotations.                     *)
(***************************************************************************)

One(b) == IF b THEN 1 ELSE 0

StaleInHand(c) ==
  conf.cookie /\ call[c].pc \in {"reading", "send", "refused"} /\ call[c].sent # cookie

StaleReader(c) == call[c].pc = "reading" /\ call[c].sent # cookie

(* Some other task is about to put an old cookie into the cache. *)
StaleWriter(c) == \E d \in Callers \ {c} : StaleReader(d)

StaleCache == cache.content \notin {None, cookie} /\ ~cache.refresh

StaleAhead(c) == StaleWriter(c) \/ (StaleCache /\ ~StaleInHand(c))

BrokenHeld ==
  /\ conf.tunnel
  /\ \/ guard.tunnel \notin live \cup {None}
     \/ \E c \in Callers : Inside(c) /\ call[c].tunnel \notin live \cup {None}

(* The response comes through a tunnel that has broken. *)
CutAhead(c) == conf.tunnel /\ call[c].pc = "answer" /\ call[c].tunnel \notin live

WrongInHand(c) ==
  call[c].pc = "answer" /\ call[c].stage = "body" /\ call[c].hash # call[c].answer

Lost(c) == call[c].tries + One(call[c].pc = "failed")

Owed(c) ==
  One(StaleInHand(c)) + One(StaleAhead(c)) + One(BrokenHeld) + One(CutAhead(c))
  + One(WrongInHand(c))

Accounted == \A c \in Callers : Lost(c) + Owed(c) <= faults + breaks + 2 * (cookie - 1)

(* Only the holder of the cache's lock reads the cookie file, nothing is   *)
(* newer than the node's cookie, and only an old cookie is refused.        *)
CookieOrder ==
  /\ breaks \in Nat /\ cookie >= 1 /\ cache.content <= cookie
  /\ \A c \in Callers :
       /\ call[c].sent <= cookie
       /\ call[c].pc = "reading" => cache.by = c /\ conf.cookie
       /\ call[c].pc = "refused" => conf.cookie /\ call[c].sent # cookie

(* Past "connect" the task has a tunnel, if there are any. *)
Using == Locking \ {"connect"}
Tunnelled ==
  \A c \in Callers : conf.tunnel /\ call[c].pc \in Using => call[c].tunnel # None

CauseInv == CookieOrder /\ Tunnelled /\ Accounted

(* A step of one task leaves the books of the others alone if it reads the *)
(* cookie as it is, makes the cache old only by storing an old cookie, and *)
(* breaks no tunnel. *)
LEMMA CauseStep ==
  ASSUME ClientInv, CauseInv, NEW c \in Callers, NEW k \in CallType,
         call' = [call EXCEPT ![c] = k], conf' = conf, cookie' = cookie,
         breaks' = breaks, live \subseteq live', faults' \in Nat, faults <= faults',
         StaleCache' => StaleCache \/ StaleReader(c),
         cache'.content <= cookie, k.sent <= cookie,
         \A x \in Callers \ {c} : cache.by = x => cache'.by = x,
         k.pc = "reading" => k.sent = cookie /\ cache'.by = c /\ conf.cookie,
         k.pc = "refused" => conf.cookie /\ k.sent # cookie,
         conf.tunnel /\ k.pc \in Using => k.tunnel # None,
         BrokenHeld' => BrokenHeld,
         Lost(c)' + Owed(c)' <= Lost(c) + Owed(c) + (faults' - faults)
  PROVE  CauseInv'
<1>1. /\ call'[c] = k /\ (\A x \in Callers \ {c} : call'[x] = call[x])
      /\ \A x \in Callers : call[x].tries \in Nat
      /\ faults \in Nat /\ breaks \in Nat /\ cookie \in Nat
  BY DEF ClientInv, Frame, ClientTypeOK, CallType, CauseInv, CookieOrder
<1>2. CookieOrder'
  BY <1>1 DEF CauseInv, CookieOrder
<1>5. Tunnelled'
  BY <1>1 DEF CauseInv, Tunnelled
<1>3. ASSUME NEW x \in Callers, x # c
      PROVE  Lost(x)' + Owed(x)' <= faults' + breaks' + 2 * (cookie' - 1)
  <2>1. Lost(x)' = Lost(x) /\ Lost(x) \in Nat
    BY <1>1, <1>3 DEF Lost, One
  <2>2. StaleInHand(x)' <=> StaleInHand(x)
    BY <1>1, <1>3 DEF StaleInHand
  <2>3. (WrongInHand(x)' <=> WrongInHand(x)) /\ (CutAhead(x)' => CutAhead(x))
    BY <1>1, <1>3 DEF WrongInHand, CutAhead
  <2>4. StaleWriter(x)' => StaleWriter(x)
    BY <1>1 DEF StaleWriter, StaleReader
  <2>5. StaleReader(c) => StaleWriter(x)
    BY <1>3 DEF StaleWriter
  <2>6. StaleAhead(x)' => StaleAhead(x)
    BY <2>2, <2>4, <2>5 DEF StaleAhead
  <2>7. Owed(x)' <= Owed(x) /\ Owed(x) \in Nat /\ Owed(x)' \in Nat
    BY <2>2, <2>3, <2>6 DEF Owed, One
  <2>8. Lost(x) + Owed(x) <= faults + breaks + 2 * (cookie - 1)
    BY DEF CauseInv, Accounted
  <2> HIDE DEF Lost, Owed
  <2> QED
    BY <1>1, <2>1, <2>7, <2>8
<1>4. Lost(c)' + Owed(c)' <= faults' + breaks' + 2 * (cookie' - 1)
  <2>1. Lost(c) + Owed(c) <= faults + breaks + 2 * (cookie - 1)
    BY DEF CauseInv, Accounted
  <2>2. Lost(c) \in Nat /\ Owed(c) \in Nat
    BY <1>1 DEF Lost, Owed, One
  <2>3. Lost(c)' \in Nat /\ Owed(c)' \in Nat
    BY <1>1 DEF Lost, Owed, One, CallType
  <2> QED
    BY <1>1, <2>1, <2>2, <2>3
<1> QED
  BY <1>2, <1>3, <1>4, <1>5 DEF CauseInv, Accounted

(* The tunnels a step leaves held are those held before, or work. *)
LEMMA HeldStep ==
  ASSUME ClientInv, NEW c \in Callers, NEW k \in CallType,
         call' = [call EXCEPT ![c] = k], conf' = conf, live \subseteq live',
         \/ guard'.tunnel \in {guard.tunnel, None}
         \/ Inside(c) /\ guard'.tunnel = call[c].tunnel,
         k.pc \in Locking => \/ k.tunnel \in {guard.tunnel, None} \cup live'
                             \/ Inside(c) /\ k.tunnel = call[c].tunnel
  PROVE  BrokenHeld' => BrokenHeld
<1>1. call'[c] = k /\ \A x \in Callers \ {c} : call'[x] = call[x]
  BY DEF ClientInv, Frame, ClientTypeOK
<1> SUFFICES ASSUME BrokenHeld' PROVE BrokenHeld
  OBVIOUS
<1>2. CASE guard'.tunnel \notin live' \cup {None}
  BY <1>2 DEF BrokenHeld
<1>3. ASSUME NEW x \in Callers, Inside(x)', call'[x].tunnel \notin live' \cup {None}
      PROVE  BrokenHeld
  <2>1. CASE x = c
    BY <1>1, <1>3, <2>1 DEF BrokenHeld, Inside
  <2>2. CASE x # c
    BY <1>1, <1>3, <2>2 DEF BrokenHeld, Inside
  <2> QED
    BY <2>1, <2>2
<1> QED
  BY <1>2, <1>3 DEF BrokenHeld

(* What the task's own account needs to know of its state. *)
LEMMA OwnFacts ==
  ASSUME ClientInv, CauseInv, NEW c \in Callers
  PROVE  /\ call \in [Callers -> CallType] /\ call[c] \in CallType /\ cache \in CacheType
         /\ guard \in GuardType /\ cookie \in Nat /\ faults \in Nat /\ breaks \in Nat
         /\ call[c].tries \in Nat
         /\ cache.content <= cookie /\ call[c].sent <= cookie /\ cookie >= 1
         /\ call[c].pc = "reading" => cache.by = c /\ conf.cookie
         /\ call[c].pc = "refused" => conf.cookie /\ call[c].sent # cookie
         /\ call[c].pc \in {"idle", "ask", "connect"} => call[c].tunnel = None
         /\ conf.tunnel /\ call[c].pc \in Using => call[c].tunnel # None
         /\ Nobody \notin Callers
BY ClientAssumption
   DEF ClientInv, Frame, ClientTypeOK, TunnelShared, CallType, CauseInv, CookieOrder, Tunnelled

(* A step within an attempt, or one that begins or ends a request: the     *)
(* task owes what it owed, and no attempt is lost. *)
LEMMA SameAttempt ==
  ASSUME ClientInv, CauseInv, NEW c \in Callers, NEW k \in CallType,
         call' = [call EXCEPT ![c] = k],
         UNCHANGED <<conf, best, cookie, breaks>>, live \subseteq live',
         \/ guard'.tunnel \in {guard.tunnel, None}
         \/ Inside(c) /\ guard'.tunnel = call[c].tunnel,
         faults' = faults \/ faults' = faults + 1,
         cache'.content <= cookie, k.sent <= cookie,
         \A x \in Callers \ {c} : cache.by = x => cache'.by = x,
         StaleCache' => StaleCache \/ StaleReader(c),
         k.pc = "reading" => k.sent = cookie /\ cache'.by = c /\ conf.cookie,
         k.pc = "refused" => conf.cookie /\ k.sent # cookie,
         conf.tunnel /\ k.pc \in Using => k.tunnel # None,
         k.pc \in Locking => \/ k.tunnel \in {guard.tunnel, None} \cup live'
                             \/ Inside(c) /\ k.tunnel = call[c].tunnel,
         k.tries \in {0, call[c].tries}, k.pc # "failed",
         conf.tunnel /\ k.pc = "answer" => k.tunnel \in live',
         One(StaleInHand(c)') + One(StaleAhead(c)') <= One(StaleInHand(c)) + One(StaleAhead(c)),
         k.pc = "answer" /\ k.stage = "body" /\ k.hash # k.answer => faults' = faults + 1
  PROVE  CauseInv'
<1>1. /\ call'[c] = k /\ call[c].tries \in Nat /\ faults \in Nat /\ k.tries \in Nat
  BY OwnFacts DEF CallType
<1>2. BrokenHeld' => BrokenHeld
  BY HeldStep
<1>3. Lost(c)' + Owed(c)' <= Lost(c) + Owed(c) + (faults' - faults)
  <2>1. Lost(c)' <= Lost(c) /\ Lost(c)' \in Nat /\ Lost(c) \in Nat
    BY <1>1 DEF Lost, One
  <2>2. One(BrokenHeld') <= One(BrokenHeld)
    BY <1>2 DEF One
  <2>3. One(WrongInHand(c)') <= One(WrongInHand(c)) + (faults' - faults)
    BY <1>1 DEF WrongInHand, One
  <2>6. ~CutAhead(c)'
    BY <1>1 DEF CutAhead
  <2>4. /\ One(CutAhead(c)) \in Nat
        /\ One(StaleInHand(c)) \in Nat /\ One(StaleInHand(c)') \in Nat
        /\ One(StaleAhead(c)) \in Nat /\ One(StaleAhead(c)') \in Nat
        /\ One(BrokenHeld) \in Nat /\ One(BrokenHeld') \in Nat
        /\ One(WrongInHand(c)) \in Nat /\ One(WrongInHand(c)') \in Nat
    BY DEF One
  <2>5. Owed(c)' = One(StaleInHand(c)') + One(StaleAhead(c)') + One(BrokenHeld')
                   + One(WrongInHand(c)')
    BY <2>6 DEF Owed, One
  <2> HIDE DEF Lost, One
  <2> QED
    BY <1>1, <2>1, <2>2, <2>3, <2>4, <2>5 DEF Owed
<1>4. faults' \in Nat /\ faults <= faults'
  BY <1>1
<1> QED
  BY <1>2, <1>3, <1>4, CauseStep

(* When the cache and what the task holds of the cookie stay, so does what *)
(* is stale. *)
LEMMA StaleSame ==
  ASSUME ClientInv, NEW c \in Callers, NEW k \in CallType,
         call' = [call EXCEPT ![c] = k], UNCHANGED <<conf, cookie>>,
         StaleCache' <=> StaleCache,
         (conf.cookie /\ k.pc \in {"reading", "send", "refused"} /\ k.sent # cookie)
           <=> StaleInHand(c)
  PROVE  One(StaleInHand(c)') + One(StaleAhead(c)') <= One(StaleInHand(c)) + One(StaleAhead(c))
<1>1. call'[c] = k /\ \A x \in Callers \ {c} : call'[x] = call[x]
  BY DEF ClientInv, Frame, ClientTypeOK
<1>2. StaleInHand(c)' <=> StaleInHand(c)
  BY <1>1 DEF StaleInHand
<1>3. StaleAhead(c)' <=> StaleAhead(c)
  BY <1>1, <1>2 DEF StaleAhead, StaleWriter, StaleReader
<1> QED
  BY <1>2, <1>3 DEF One

(* The steps that hand over no cookie. *)
LEMMA QuietCause ==
  ASSUME ClientInv, CauseInv, NEW c \in Callers,
         Begin(c) \/ Authenticate(c) \/ Refused(c) \/ Reuse(c) \/ Return(c)
  PROVE  CauseInv'
<1> USE DEF At, Inside, Locking, Using
<1>1. /\ call \in [Callers -> CallType] /\ call[c] \in CallType /\ call[c].sent <= cookie
      /\ cache.content <= cookie /\ guard \in GuardType /\ cookie \in Nat /\ cookie >= 1
      /\ call[c].pc \in {"idle", "ask", "connect"} => call[c].tunnel = None
      /\ conf.tunnel /\ call[c].pc \in Using => call[c].tunnel # None
  BY OwnFacts
<1>2. UNCHANGED <<conf, best, cookie, faults, breaks, guard, live, cache>>
  BY DEF Begin, Authenticate, Refused, Reuse, Return, env
<1>3. StaleCache' <=> StaleCache
  BY <1>2 DEF StaleCache
<1>4. CASE Begin(c)
  <2> DEFINE k == Asking("hash", Nobody)
  <2>1. /\ k \in CallType /\ k.pc = "ask" /\ k.tunnel = None /\ k.sent = 0 /\ k.tries = 0
    BY DEF Asking, None, CallType, Steps
  <2>2. call' = [call EXCEPT ![c] = k] /\ call[c].pc = "idle"
    BY <1>4 DEF Begin
  <2> HIDE DEF k
  <2>3. One(StaleInHand(c)') + One(StaleAhead(c)') <= One(StaleInHand(c)) + One(StaleAhead(c))
    BY <1>2, <1>3, <2>1, <2>2, StaleSame DEF StaleInHand
  <2>4. k.sent <= cookie /\ k.tries \in {0, call[c].tries} /\ k.pc \notin Locking
    BY <1>1, <2>1
  <2> QED
    BY <1>1, <1>2, <1>3, <2>1, <2>2, <2>3, <2>4, SameAttempt
<1>5. CASE Return(c)
  <2>1. Idle \in CallType /\ Idle.pc = "idle" /\ Idle.tunnel = None /\ Idle.sent = 0 /\ Idle.tries = 0
    BY DEF Idle, Asking, None, CallType, Steps
  <2>2. call' = [call EXCEPT ![c] = Idle] /\ call[c].pc \in {"done", "failed"}
    BY <1>5 DEF Return
  <2>3. One(StaleInHand(c)') + One(StaleAhead(c)') <= One(StaleInHand(c)) + One(StaleAhead(c))
    BY <1>2, <1>3, <2>1, <2>2, StaleSame DEF StaleInHand
  <2>4. Idle.sent <= cookie /\ Idle.tries \in {0, call[c].tries} /\ Idle.pc \notin Locking
    BY <1>1, <2>1
  <2> QED
    BY <1>1, <1>2, <1>3, <2>1, <2>2, <2>3, <2>4, SameAttempt
<1>6. CASE Authenticate(c)
  <2> DEFINE k == [call[c] EXCEPT !.pc = "send"]
  <2>1. /\ k \in CallType /\ k.pc = "send" /\ k.tunnel = call[c].tunnel
        /\ k.sent = call[c].sent /\ k.tries = call[c].tries
    BY <1>1 DEF CallType, Steps
  <2>2. call' = [call EXCEPT ![c] = k] /\ call[c].pc = "auth" /\ ~conf.cookie
    BY <1>1, <1>6 DEF Authenticate, Goes
  <2> HIDE DEF k
  <2>3. One(StaleInHand(c)') + One(StaleAhead(c)') <= One(StaleInHand(c)) + One(StaleAhead(c))
    BY <1>2, <1>3, <2>1, <2>2, StaleSame DEF StaleInHand
  <2> QED
    BY <1>1, <1>2, <1>3, <2>1, <2>2, <2>3, SameAttempt
<1>7. CASE Refused(c)
  <2> DEFINE k == [call[c] EXCEPT !.pc = "refused"]
  <2>1. /\ k \in CallType /\ k.pc = "refused" /\ k.tunnel = call[c].tunnel
        /\ k.sent = call[c].sent /\ k.tries = call[c].tries
    BY <1>1 DEF CallType, Steps
  <2>2. /\ call' = [call EXCEPT ![c] = k] /\ call[c].pc = "send"
        /\ conf.cookie /\ call[c].sent # cookie
    BY <1>1, <1>7 DEF Refused, Goes
  <2> HIDE DEF k
  <2>3. One(StaleInHand(c)') + One(StaleAhead(c)') <= One(StaleInHand(c)) + One(StaleAhead(c))
    BY <1>2, <1>3, <2>1, <2>2, StaleSame DEF StaleInHand
  <2> QED
    BY <1>1, <1>2, <1>3, <2>1, <2>2, <2>3, SameAttempt
<1>8. CASE Reuse(c)
  <2> DEFINE k == [call[c] EXCEPT !.pc = "auth", !.tunnel = guard.tunnel]
  <2>1. /\ k \in CallType /\ k.pc = "auth" /\ k.tunnel = guard.tunnel
        /\ k.sent = call[c].sent /\ k.tries = call[c].tries
    BY <1>1 DEF CallType, GuardType, Steps
  <2>2. call' = [call EXCEPT ![c] = k] /\ call[c].pc = "connect"
        /\ (conf.tunnel => guard.tunnel # None)
    BY <1>1, <1>8 DEF Reuse
  <2> HIDE DEF k
  <2>3. One(StaleInHand(c)') + One(StaleAhead(c)') <= One(StaleInHand(c)) + One(StaleAhead(c))
    BY <1>2, <1>3, <2>1, <2>2, StaleSame DEF StaleInHand
  <2> QED
    BY <1>1, <1>2, <1>3, <2>1, <2>2, <2>3, SameAttempt
<1> QED
  BY <1>4, <1>5, <1>6, <1>7, <1>8

(* A cookie from the cache is one the task had coming: its lock is free,   *)
(* so nobody is about to store another. *)
LEMMA CachedCookieCause ==
  ASSUME ClientInv, CauseInv, NEW c \in Callers, CachedCookie(c)
  PROVE  CauseInv'
<1> DEFINE k == [call[c] EXCEPT !.pc = "send", !.sent = cache.content]
<1>1. /\ call \in [Callers -> CallType] /\ call[c] \in CallType /\ cache \in CacheType
      /\ conf.tunnel /\ call[c].pc \in Using => call[c].tunnel # None
      /\ cache.content <= cookie
  BY OwnFacts
<1>2. /\ UNCHANGED <<conf, best, cookie, faults, breaks, guard, live, cache>>
      /\ call[c].pc = "auth" /\ conf.cookie /\ cache.by = Nobody
      /\ ~cache.refresh /\ cache.content # None
  BY DEF CachedCookie, NeedsRefresh, At, env
<1>3. /\ k \in CallType /\ k.pc = "send" /\ k.tunnel = call[c].tunnel
      /\ k.sent = cache.content /\ k.tries = call[c].tries
  BY <1>1 DEF CallType, CacheType, Steps, Locking
<1>4. call' = [call EXCEPT ![c] = k]
  BY <1>1 DEF CachedCookie
<1> HIDE DEF k
<1>5. One(StaleInHand(c)') + One(StaleAhead(c)') <= One(StaleInHand(c)) + One(StaleAhead(c))
  <2>1. call'[c] = k /\ \A x \in Callers \ {c} : call'[x] = call[x]
    BY <1>1, <1>4
  <2>2. \A x \in Callers : ~StaleReader(x)
    BY <1>2, OwnFacts DEF StaleReader
  <2>3. ~StaleWriter(c) /\ ~StaleWriter(c)'
    BY <1>2, <2>1, <2>2 DEF StaleWriter, StaleReader
  <2>4. ~StaleInHand(c) /\ (StaleAhead(c) <=> cache.content # cookie)
    BY <1>2, <2>3 DEF StaleInHand, StaleAhead, StaleCache
  <2>5. StaleInHand(c)' <=> cache.content # cookie
    BY <1>2, <1>3, <2>1 DEF StaleInHand
  <2>6. ~StaleAhead(c)'
    BY <1>2, <2>3, <2>5 DEF StaleAhead, StaleCache
  <2> QED
    BY <2>4, <2>5, <2>6 DEF One
<1>6. StaleCache' <=> StaleCache
  BY <1>2 DEF StaleCache
<1> QED
  BY <1>1, <1>2, <1>3, <1>4, <1>5, <1>6, SameAttempt DEF Inside, Locking, Using

(* The file holds the node's cookie, ... *)
LEMMA ReadCookieCause ==
  ASSUME ClientInv, CauseInv, NEW c \in Callers, ReadCookie(c)
  PROVE  CauseInv'
<1> DEFINE k == [call[c] EXCEPT !.pc = "reading", !.sent = cookie]
<1>1. /\ call \in [Callers -> CallType] /\ call[c] \in CallType /\ cache \in CacheType
      /\ conf.tunnel /\ call[c].pc \in Using => call[c].tunnel # None
      /\ cache.content <= cookie /\ cookie \in Nat /\ Nobody \notin Callers
  BY OwnFacts
<1>2. /\ UNCHANGED <<conf, best, cookie, faults, breaks, guard, live>>
      /\ call[c].pc = "auth" /\ conf.cookie /\ cache.by = Nobody
      /\ cache'.content = cache.content /\ cache'.refresh = cache.refresh /\ cache'.by = c
  BY <1>1 DEF ReadCookie, At, env, CacheType
<1>3. /\ k \in CallType /\ k.pc = "reading" /\ k.tunnel = call[c].tunnel
      /\ k.sent = cookie /\ k.tries = call[c].tries
  BY <1>1 DEF CallType, Steps, Locking
<1>4. call' = [call EXCEPT ![c] = k]
  BY <1>1 DEF ReadCookie
<1> HIDE DEF k
<1>5. StaleCache' <=> StaleCache
  BY <1>2 DEF StaleCache
<1>6. One(StaleInHand(c)') + One(StaleAhead(c)') <= One(StaleInHand(c)) + One(StaleAhead(c))
  BY <1>2, <1>3, <1>4, <1>5, StaleSame DEF StaleInHand
<1>7. k.sent <= cookie /\ cache'.content <= cookie
  BY <1>1, <1>2, <1>3
<1>8. \A x \in Callers \ {c} : cache.by = x => cache'.by = x
  BY <1>1, <1>2
<1> QED
  BY <1>1, <1>2, <1>3, <1>4, <1>5, <1>6, <1>7, <1>8, SameAttempt DEF Inside, Locking, Using

(* ... but it may have been replaced by the time it is stored. *)
LEMMA StoreCookieCause ==
  ASSUME ClientInv, CauseInv, NEW c \in Callers, StoreCookie(c)
  PROVE  CauseInv'
<1> DEFINE k == [call[c] EXCEPT !.pc = "send"]
<1>1. /\ call \in [Callers -> CallType] /\ call[c] \in CallType /\ call[c].sent <= cookie
      /\ cache.by = c /\ conf.cookie /\ call[c].pc = "reading"
      /\ conf.tunnel /\ call[c].pc \in Using => call[c].tunnel # None
  BY OwnFacts DEF StoreCookie, At
<1>2. /\ UNCHANGED <<conf, best, cookie, faults, breaks, guard, live>>
      /\ cache'.content = call[c].sent
  BY DEF StoreCookie, env
<1>3. /\ k \in CallType /\ k.pc = "send" /\ k.tunnel = call[c].tunnel
      /\ k.sent = call[c].sent /\ k.tries = call[c].tries
  BY <1>1 DEF CallType, Steps, Locking
<1>4. call' = [call EXCEPT ![c] = k]
  BY <1>1 DEF StoreCookie, Goes
<1> HIDE DEF k
<1>5. StaleCache' => StaleReader(c)
  BY <1>1, <1>2 DEF StaleCache, StaleReader
<1>6. One(StaleInHand(c)') + One(StaleAhead(c)') <= One(StaleInHand(c)) + One(StaleAhead(c))
  <2>1. call'[c] = k /\ \A x \in Callers \ {c} : call'[x] = call[x]
    BY <1>1, <1>4
  <2>2. StaleInHand(c)' <=> StaleInHand(c)
    BY <1>1, <1>2, <1>3, <2>1 DEF StaleInHand
  <2>3. StaleCache' => StaleInHand(c)'
    BY <1>1, <1>5, <2>2 DEF StaleReader, StaleInHand
  <2>4. StaleAhead(c)' => StaleAhead(c)
    BY <1>2, <2>1, <2>3 DEF StaleAhead, StaleWriter, StaleReader
  <2> QED
    BY <2>2, <2>4 DEF One
<1> QED
  BY <1>1, <1>2, <1>3, <1>4, <1>5, <1>6, SameAttempt DEF Inside, Locking, Using

(* Only the node's cookie gets an answer, and only a proxy's is wrong. *)
LEMMA AnswerCause ==
  ASSUME ClientInv, CauseInv, NEW c \in Callers, NodeAnswers(c) \/ WrongBody(c)
  PROVE  CauseInv'
<1>1. /\ call \in [Callers -> CallType] /\ call[c] \in CallType /\ call[c].sent <= cookie
      /\ cache.content <= cookie /\ best \in Blocks
      /\ conf.tunnel /\ call[c].pc \in Using => call[c].tunnel # None
  BY OwnFacts DEF ClientInv, Frame, ClientTypeOK
<1>2. PICK a \in Blocks \cup {Nobody} :
        /\ Answer(c, a)
        /\ call[c].stage = "body" /\ call[c].hash # a => faults' = faults + 1
  <2>1. CASE NodeAnswers(c)
    <3>1. (IF call[c].stage = "hash" THEN best ELSE call[c].hash) \in Blocks \cup {Nobody}
      BY <1>1 DEF CallType
    <3> QED
      BY <2>1, <3>1 DEF NodeAnswers
  <2>2. CASE WrongBody(c)
    BY <2>2 DEF WrongBody, Fault
  <2> QED
    BY <2>1, <2>2
<1>3. /\ UNCHANGED <<conf, best, cookie, breaks, guard, live, cache>>
      /\ faults' = faults \/ faults' = faults + 1
      /\ call[c].pc = "send" /\ (conf.cookie => call[c].sent = cookie)
      /\ (conf.tunnel => call[c].tunnel \in live)
  BY <1>2 DEF NodeAnswers, WrongBody, Answer, Fault, env, At
<1> DEFINE k == [call[c] EXCEPT !.pc = "answer", !.answer = a]
<1>4. /\ k \in CallType /\ k.pc = "answer" /\ k.tunnel = call[c].tunnel
      /\ k.sent = call[c].sent /\ k.tries = call[c].tries
      /\ k.stage = call[c].stage /\ k.hash = call[c].hash /\ k.answer = a
  BY <1>1 DEF CallType, Steps, Locking
<1>5. call' = [call EXCEPT ![c] = k]
  BY <1>1, <1>2 DEF Answer
<1> HIDE DEF k
<1>6. StaleCache' <=> StaleCache
  BY <1>3 DEF StaleCache
<1>7. One(StaleInHand(c)') + One(StaleAhead(c)') <= One(StaleInHand(c)) + One(StaleAhead(c))
  BY <1>3, <1>4, <1>5, <1>6, StaleSame DEF StaleInHand
<1> QED
  BY <1>1, <1>2, <1>3, <1>4, <1>5, <1>6, <1>7, SameAttempt DEF Inside, Locking, Using

(* Taking the tunnel's lock, and making a tunnel. *)
LEMMA TunnelCause ==
  ASSUME ClientInv, CauseInv, NEW c \in Callers, Enter(c) \/ Create(c)
  PROVE  CauseInv'
<1>1. /\ call \in [Callers -> CallType] /\ call[c] \in CallType /\ call[c].sent <= cookie
      /\ cache.content <= cookie /\ guard \in GuardType
      /\ call[c].pc \in {"idle", "ask", "connect"} => call[c].tunnel = None
  BY OwnFacts
<1>2. UNCHANGED <<conf, best, cookie, faults, breaks, cache>> /\ live \subseteq live'
  BY DEF Enter, Create, env
<1>3. guard'.tunnel = guard.tunnel
  BY <1>1 DEF Enter, Create, GuardType
<1>4. StaleCache' <=> StaleCache
  BY <1>2 DEF StaleCache
<1>5. CASE Enter(c)
  <2> DEFINE k == [call[c] EXCEPT !.pc = "connect"]
  <2>1. /\ call[c].pc = "ask" /\ call' = [call EXCEPT ![c] = k]
        /\ k \in CallType /\ k.pc = "connect" /\ k.tunnel = None
        /\ k.sent = call[c].sent /\ k.tries = call[c].tries
    BY <1>1, <1>5 DEF Enter, At, Goes, CallType, Steps, Locking
  <2> HIDE DEF k
  <2>2. One(StaleInHand(c)') + One(StaleAhead(c)') <= One(StaleInHand(c)) + One(StaleAhead(c))
    BY <1>2, <1>4, <2>1, StaleSame DEF StaleInHand
  <2> QED
    BY <1>1, <1>2, <1>3, <1>4, <2>1, <2>2, SameAttempt DEF Using
<1>6. CASE Create(c)
  <2> DEFINE t == Cardinality(listeners) + 1
             k == [call[c] EXCEPT !.pc = "auth", !.tunnel = t]
  <2>0. t \in Nat /\ t # None
    BY DEF ClientInv, Account, None
  <2>1. /\ call[c].pc = "connect" /\ call' = [call EXCEPT ![c] = k] /\ t \in live'
        /\ k \in CallType /\ k.pc = "auth" /\ k.tunnel = t
        /\ k.sent = call[c].sent /\ k.tries = call[c].tries
    BY <1>1, <1>6, <2>0 DEF Create, At, CallType, Steps, Locking
  <2> HIDE DEF k, t
  <2>2. One(StaleInHand(c)') + One(StaleAhead(c)') <= One(StaleInHand(c)) + One(StaleAhead(c))
    BY <1>2, <1>4, <2>1, StaleSame DEF StaleInHand
  <2> QED
    BY <1>1, <1>2, <1>3, <1>4, <2>0, <2>1, <2>2, SameAttempt
<1> QED
  BY <1>5, <1>6

(* After an attempt that failed one more is lost, and the task holds       *)
(* neither a cookie nor a body; t is the tunnel that is kept. *)
LEMMA AgainFacts ==
  ASSUME ClientInv, CauseInv, NEW c \in Callers, NEW t, Again(c, t)
  PROVE  /\ guard'.tunnel = t
         /\ \E k \in CallType :
              /\ call' = [call EXCEPT ![c] = k] /\ k.pc \in {"connect", "failed"}
              /\ k.tries + One(k.pc = "failed") = call[c].tries + 1
              /\ k.pc = "connect" => k.tunnel = None
              /\ k.sent <= cookie
<1>1. /\ call \in [Callers -> CallType] /\ call[c] \in CallType /\ guard \in GuardType
      /\ call[c].tries \in Nat /\ call[c].sent <= cookie /\ cookie \in Nat
  BY OwnFacts
<1>2. CASE call[c].tries + 1 < Attempts
  <2> DEFINE k == [call[c] EXCEPT !.pc = "connect", !.tries = @ + 1,
                                  !.tunnel = None, !.sent = None]
  <2>1. /\ k \in CallType /\ k.pc = "connect" /\ k.tunnel = None /\ k.sent = None
        /\ k.tries = call[c].tries + 1
    <3>1. call[c].tries + 1 \in Nat /\ None \in Nat
      BY <1>1 DEF None
    <3> QED
      BY <1>1, <3>1 DEF CallType, Steps, Locking
  <2>2. call' = [call EXCEPT ![c] = k]
    BY <1>1, <1>2 DEF Again
  <2>3. guard'.tunnel = t
    BY <1>1, <1>2 DEF Again, GuardType
  <2> HIDE DEF k
  <2>4. k.tries + One(k.pc = "failed") = call[c].tries + 1 /\ k.sent <= cookie
    BY <1>1, <2>1 DEF One, None
  <2> QED
    BY <2>1, <2>2, <2>3, <2>4
<1>3. CASE ~(call[c].tries + 1 < Attempts)
  <2> DEFINE k == [call[c] EXCEPT !.pc = "failed"]
  <2>1. /\ k \in CallType /\ k.pc = "failed" /\ k.sent = call[c].sent
        /\ k.tries = call[c].tries
    BY <1>1 DEF CallType, Steps, Locking
  <2>2. call' = [call EXCEPT ![c] = k]
    BY <1>1, <1>3 DEF Again, Goes
  <2>3. guard'.tunnel = t
    BY <1>1, <1>3 DEF Again, Freed, GuardType
  <2> HIDE DEF k
  <2>4. k.tries + One(k.pc = "failed") = call[c].tries + 1 /\ k.sent <= cookie
    BY <1>1, <2>1 DEF One
  <2> QED
    BY <2>1, <2>2, <2>3, <2>4
<1> QED
  BY <1>2, <1>3

(* A lost attempt is paid for by a fault, by the cookie or the body that   *)
(* was held, or by the broken tunnel that was held and now is not. *)
LEMMA LostAttempt ==
  ASSUME ClientInv, CauseInv, NEW c \in Callers, NEW k \in CallType, Inside(c),
         call' = [call EXCEPT ![c] = k], UNCHANGED <<conf, best, cookie, breaks, live>>,
         k.pc \in {"connect", "failed"}, k.pc = "connect" => k.tunnel = None,
         k.tries + One(k.pc = "failed") = call[c].tries + 1, k.sent <= cookie,
         guard'.tunnel \in {guard.tunnel, None, call[c].tunnel},
         faults' = faults \/ faults' = faults + 1,
         cache'.content = cache.content, cache.refresh => cache'.refresh,
         \A x \in Callers \ {c} : cache.by = x => cache'.by = x,
         \/ faults' = faults + 1
         \/ StaleInHand(c) /\ cache'.refresh
         \/ WrongInHand(c)
         \/ CutAhead(c)
         \/ BrokenHeld /\ ~BrokenHeld'
  PROVE  CauseInv'
<1>1. /\ call'[c] = k /\ (\A x \in Callers \ {c} : call'[x] = call[x])
      /\ call[c].tries \in Nat /\ faults \in Nat /\ k.tries \in Nat
      /\ cache.content <= cookie /\ call[c].pc # "failed"
  BY OwnFacts DEF CallType, Inside, Locking
<1>2. BrokenHeld' => BrokenHeld
  <2>1. \/ guard'.tunnel \in {guard.tunnel, None}
        \/ Inside(c) /\ guard'.tunnel = call[c].tunnel
    OBVIOUS
  <2>2. k.pc \in Locking => k.tunnel = None
    BY DEF Locking
  <2> QED
    BY <2>1, <2>2, HeldStep
<1>3. StaleCache' => StaleCache
  BY DEF StaleCache
<1>4. ~StaleInHand(c)' /\ ~WrongInHand(c)' /\ ~CutAhead(c)'
  BY <1>1 DEF StaleInHand, WrongInHand, CutAhead
<1>5. StaleAhead(c)' => StaleInHand(c) \/ StaleAhead(c)
  BY <1>1, <1>3 DEF StaleAhead, StaleWriter, StaleReader
<1>6. StaleAhead(c)' /\ cache'.refresh => StaleAhead(c)
  BY <1>1 DEF StaleAhead, StaleWriter, StaleReader, StaleCache
<1>8. Lost(c)' = Lost(c) + 1 /\ Lost(c) \in Nat
  BY <1>1 DEF Lost, One
<1>9. Lost(c)' + Owed(c)' <= Lost(c) + Owed(c) + (faults' - faults)
  <2>1. Owed(c)' = One(StaleAhead(c)') + One(BrokenHeld')
    BY <1>4 DEF Owed, One
  <2>2. Owed(c)' + 1 <= Owed(c) + (faults' - faults)
    <3>1. /\ One(StaleInHand(c)) \in Nat /\ One(StaleAhead(c)) \in Nat
          /\ One(StaleAhead(c)') \in Nat /\ One(BrokenHeld) \in Nat
          /\ One(BrokenHeld') \in Nat /\ One(WrongInHand(c)) \in Nat
          /\ One(CutAhead(c)) \in Nat
      BY DEF One
    <3>2. One(StaleAhead(c)') <= One(StaleInHand(c)) + One(StaleAhead(c))
      BY <1>5 DEF One
    <3>3. One(BrokenHeld') <= One(BrokenHeld)
      BY <1>2 DEF One
    <3>4. \/ faults' - faults = 1 /\ faults' = faults + 1
          \/ faults' - faults = 0 /\ faults' = faults
      BY <1>1
    <3>5. CASE faults' = faults + 1
      <4> HIDE DEF One
      <4> QED
        BY <2>1, <3>1, <3>2, <3>3, <3>4, <3>5, <1>1 DEF Owed
    <3>6. CASE StaleInHand(c) /\ cache'.refresh
      <4>1. One(StaleInHand(c)) = 1 /\ One(StaleAhead(c)') <= One(StaleAhead(c))
        BY <1>6, <3>6 DEF One
      <4> HIDE DEF One
      <4> QED
        BY <2>1, <3>1, <3>3, <3>4, <4>1, <1>1 DEF Owed
    <3>7. CASE WrongInHand(c)
      <4>1. One(WrongInHand(c)) = 1
        BY <3>7 DEF One
      <4> HIDE DEF One
      <4> QED
        BY <2>1, <3>1, <3>2, <3>3, <3>4, <4>1, <1>1 DEF Owed
    <3>9. CASE CutAhead(c)
      <4>1. One(CutAhead(c)) = 1
        BY <3>9 DEF One
      <4> HIDE DEF One
      <4> QED
        BY <2>1, <3>1, <3>2, <3>3, <3>4, <4>1, <1>1 DEF Owed
    <3>8. CASE BrokenHeld /\ ~BrokenHeld'
      <4>1. One(BrokenHeld) = 1 /\ One(BrokenHeld') = 0
        BY <3>8 DEF One
      <4> HIDE DEF One
      <4> QED
        BY <2>1, <3>1, <3>2, <3>4, <4>1, <1>1 DEF Owed
    <3> QED
      BY <3>5, <3>6, <3>7, <3>8, <3>9
  <2>3. Owed(c) \in Nat /\ Owed(c)' \in Nat
    BY <2>1 DEF Owed, One
  <2> HIDE DEF Owed, Lost
  <2> QED
    BY <1>1, <1>8, <2>2, <2>3
<1>10. faults' \in Nat /\ faults <= faults'
  BY <1>1
<1>11. k.pc \notin Using /\ k.pc \notin {"reading", "refused"}
  BY DEF Using, Locking
<1> QED
  BY <1>1, <1>2, <1>3, <1>9, <1>10, <1>11, CauseStep

(* The attempts that end with a fault, a refused cookie or a broken tunnel. *)
LEMMA FailureCause ==
  ASSUME ClientInv, CauseInv, NEW c \in Callers,
         \/ CreateFails(c) \/ ReadFails(c) \/ Garbled(c) \/ SendFails(c)
         \/ Refresh(c) \/ TunnelGone(c) \/ CutShort(c)
  PROVE  CauseInv'
<1>1. /\ guard \in GuardType /\ cache \in CacheType /\ Nobody \notin Callers
      /\ call[c].pc = "reading" => cache.by = c
      /\ call[c].pc = "refused" => conf.cookie /\ call[c].sent # cookie
      /\ faults \in Nat
  BY OwnFacts
<1>2. Inside(c) /\ UNCHANGED <<conf, best, cookie, breaks, live>>
  BY DEF CreateFails, ReadFails, Garbled, SendFails, Refresh, TunnelGone, CutShort, env, At, Inside, Locking
<1>3. PICK t \in {None, Kept(c)} : Again(c, t) /\ (TunnelGone(c) => t = None)
  BY DEF CreateFails, ReadFails, Garbled, SendFails, Refresh, TunnelGone, CutShort, Fails, Forgotten
<1>4. PICK k \in CallType :
        /\ call' = [call EXCEPT ![c] = k] /\ k.pc \in {"connect", "failed"}
        /\ k.tries + One(k.pc = "failed") = call[c].tries + 1
        /\ k.pc = "connect" => k.tunnel = None
        /\ k.sent <= cookie
  BY <1>3, AgainFacts
<1>5. guard'.tunnel = t
  BY <1>3, AgainFacts
<1>6. t \in {guard.tunnel, None, call[c].tunnel}
  BY <1>3 DEF Kept
<1>7. /\ cache'.content = cache.content /\ (cache.refresh => cache'.refresh)
      /\ \A x \in Callers \ {c} : cache.by = x => cache'.by = x
  BY <1>1 DEF CreateFails, ReadFails, Garbled, SendFails, Refresh, TunnelGone, CutShort, At, CacheType,
              Marked
<1>8. CASE CreateFails(c) \/ ReadFails(c) \/ Garbled(c) \/ SendFails(c)
  <2>1. faults' = faults + 1
    BY <1>8 DEF CreateFails, ReadFails, Garbled, SendFails, Fault
  <2> QED
    BY <1>2, <1>4, <1>5, <1>6, <1>7, <2>1, LostAttempt
<1>9. CASE Refresh(c)
  <2>1. StaleInHand(c) /\ cache'.refresh /\ faults' = faults
    BY <1>1, <1>9 DEF Refresh, At, StaleInHand, CacheType, Marked, env
  <2> QED
    BY <1>2, <1>4, <1>5, <1>6, <1>7, <2>1, LostAttempt
<1>10. CASE TunnelGone(c)
  <2>1. conf.tunnel /\ call[c].pc = "send" /\ call[c].tunnel \notin live /\ faults' = faults
    BY <1>10 DEF TunnelGone, At, env
  <2>2. \A x \in Callers \ {c} : ~Inside(x)
    BY <1>2, <2>1 DEF ClientInv, Frame, Locked
  <2>3. t = None
    BY <1>3, <1>10
  <2>4. ~BrokenHeld'
    <3>1. call'[c] = k /\ \A x \in Callers \ {c} : call'[x] = call[x]
      BY <1>4, OwnFacts
    <3>2. \A x \in Callers : Inside(x)' => call'[x].tunnel = None
      BY <1>4, <2>2, <3>1 DEF Inside, Locking
    <3> QED
      BY <1>5, <2>3, <3>2 DEF BrokenHeld
  <2>5. CASE call[c].tunnel # None
    <3>1. BrokenHeld
      BY <1>2, <2>1, <2>5 DEF BrokenHeld
    <3> QED
      BY <1>2, <1>4, <1>5, <1>6, <1>7, <2>1, <2>4, <3>1, LostAttempt
  <2>6. call[c].tunnel # None
    BY <2>1, OwnFacts DEF Using, Locking
  <2> QED
    BY <2>5, <2>6
<1>11. CASE CutShort(c)
  <2>1. CutAhead(c) /\ faults' = faults
    BY <1>11 DEF CutShort, At, env, CutAhead
  <2> QED
    BY <1>2, <1>4, <1>5, <1>6, <1>7, <2>1, LostAttempt
<1> QED
  BY <1>8, <1>9, <1>10, <1>11

(* A response ends a request: well, or with the wrong body, or with the    *)
(* node's own error. *)
LEMMA ResponseCause ==
  ASSUME ClientInv, CauseInv, NEW c \in Callers, Receive(c) \/ Missing(c)
  PROVE  CauseInv'
<1>1. /\ call \in [Callers -> CallType] /\ call[c] \in CallType /\ guard \in GuardType
      /\ cookie \in Nat /\ cookie >= 1 /\ cache.content <= cookie /\ call[c].sent <= cookie
      /\ call[c].tries \in Nat
  BY OwnFacts
<1>2. /\ Inside(c) /\ call[c].pc = "answer" /\ UNCHANGED <<conf, best, cookie, breaks, live, cache>>
      /\ guard' = [Freed EXCEPT !.tunnel = Kept(c)]
  BY DEF Receive, Missing, env, At, Inside, Locking
<1>3. /\ guard'.tunnel = Kept(c)
      /\ \/ guard'.tunnel \in {guard.tunnel, None}
         \/ Inside(c) /\ guard'.tunnel = call[c].tunnel
  BY <1>1, <1>2 DEF Kept, Freed, GuardType
<1>4. StaleCache' <=> StaleCache
  BY <1>2 DEF StaleCache
<1>5. ASSUME Goes(c, "failed"), faults' = faults \/ faults' = faults + 1,
             WrongInHand(c) \/ faults' = faults + 1
      PROVE  CauseInv'
  <2> DEFINE k == [call[c] EXCEPT !.pc = "failed"]
  <2>1. /\ k \in CallType /\ k.pc = "failed" /\ k.sent = call[c].sent
        /\ k.tries = call[c].tries /\ call' = [call EXCEPT ![c] = k]
    BY <1>1, <1>5 DEF Goes, CallType, Steps, Locking
  <2> HIDE DEF k
  <2>2. k.tries + One(k.pc = "failed") = call[c].tries + 1
    BY <2>1 DEF One
  <2>3. guard'.tunnel \in {guard.tunnel, None, call[c].tunnel}
    BY <1>3
  <2> QED
    BY <1>1, <1>2, <1>5, <2>1, <2>2, <2>3, LostAttempt
<1>6. CASE Missing(c)
  BY <1>5, <1>6 DEF Missing, Fault
<1>7. CASE Receive(c)
  <2>0. faults' = faults
    BY <1>7 DEF Receive, env
  <2>1. CASE call[c].stage = "hash"
    <3> DEFINE k == Asking("body", call[c].answer)
    <3>1. /\ k \in CallType /\ k.pc = "ask" /\ k.sent = 0 /\ k.tries = 0 /\ k.tunnel = None
      BY <1>1 DEF Asking, None, CallType, Steps, Locking
    <3>2. call' = [call EXCEPT ![c] = k]
      BY <1>7, <2>1 DEF Receive
    <3> HIDE DEF k
    <3>3. One(StaleInHand(c)') + One(StaleAhead(c)') <= One(StaleInHand(c)) + One(StaleAhead(c))
      BY <1>2, <1>4, <3>1, <3>2, StaleSame DEF StaleInHand
    <3>4. /\ k.sent <= cookie /\ k.tries \in {0, call[c].tries}
          /\ k.pc \notin Locking /\ k.pc \notin Using
      BY <1>1, <3>1 DEF Locking, Using
    <3> QED
      BY <1>1, <1>2, <1>3, <1>4, <2>0, <3>1, <3>2, <3>3, <3>4, SameAttempt
  <2>2. CASE call[c].stage # "hash" /\ Verified(call[c].hash, call[c].answer)
    <3> DEFINE k == [call[c] EXCEPT !.pc = "done", !.body = call[c].answer]
    <3>1. /\ k \in CallType /\ k.pc = "done" /\ k.sent = call[c].sent /\ k.tries = call[c].tries
      BY <1>1 DEF CallType, Steps, Locking
    <3>2. call' = [call EXCEPT ![c] = k]
      BY <1>1, <1>7, <2>2 DEF Receive
    <3> HIDE DEF k
    <3>3. One(StaleInHand(c)') + One(StaleAhead(c)') <= One(StaleInHand(c)) + One(StaleAhead(c))
      BY <1>2, <1>4, <3>1, <3>2, StaleSame DEF StaleInHand
    <3>4. k.pc \notin Locking /\ k.pc \notin Using
      BY <3>1 DEF Locking, Using
    <3> QED
      BY <1>1, <1>2, <1>3, <1>4, <2>0, <3>1, <3>2, <3>3, <3>4, SameAttempt
  <2>3. CASE call[c].stage # "hash" /\ ~Verified(call[c].hash, call[c].answer)
    <3>1. Goes(c, "failed")
      BY <1>7, <2>3 DEF Receive
    <3>2. WrongInHand(c)
      BY <1>1, <1>2, <2>3 DEF WrongInHand, Verified, CallType
    <3> QED
      BY <1>5, <2>0, <3>1, <3>2
  <2> QED
    BY <2>1, <2>2, <2>3
<1> QED
  BY <1>6, <1>7

(* A new cookie pays for two attempts of each task, a tunnel that breaks   *)
(* is a fault. *)
LEMMA EnvironmentCause ==
  ASSUME ClientInv, CauseInv, Switch \/ Rotate \/ TunnelBreaks
  PROVE  CauseInv'
<1>1. /\ faults \in Nat /\ breaks \in Nat /\ cookie \in Nat /\ cookie >= 1
      /\ cache.content \in Nat /\ cache.content <= cookie
      /\ \A c \in Callers : /\ call[c].tries \in Nat /\ call[c].sent \in Nat
                            /\ call[c].sent <= cookie
  BY DEF ClientInv, Frame, ClientTypeOK, CacheType, CallType, CauseInv, CookieOrder
<1>2. UNCHANGED <<conf, call, guard, cache>>
  BY DEF Switch, Rotate, TunnelBreaks
<1>3. Tunnelled'
  BY <1>2 DEF CauseInv, Tunnelled
<1>4. \A c \in Callers : Lost(c)' = Lost(c) /\ Lost(c) \in Nat
  BY <1>1, <1>2 DEF Lost, One
<1>5. \A c \in Callers : Lost(c) + Owed(c) <= faults + breaks + 2 * (cookie - 1)
  BY DEF CauseInv, Accounted
<1>6. CASE Rotate
  <2>1. cookie' = cookie + 1 /\ faults' = faults /\ breaks' = breaks /\ live' = live
    BY <1>6 DEF Rotate
  <2>2. CookieOrder'
    BY <1>1, <1>2, <2>1 DEF CauseInv, CookieOrder
  <2>3. ASSUME NEW c \in Callers PROVE Lost(c)' + Owed(c)' <= faults' + breaks' + 2 * (cookie' - 1)
    <3>1. StaleAhead(c)' => StaleWriter(c)' \/ ~StaleInHand(c)'
      BY DEF StaleAhead
    <3>2. Owed(c)' <= Owed(c) + 2 /\ Owed(c) \in Nat /\ Owed(c)' \in Nat
      <4>1. BrokenHeld' <=> BrokenHeld
        BY <1>2, <2>1 DEF BrokenHeld, Inside
      <4>2. (WrongInHand(c)' <=> WrongInHand(c)) /\ (CutAhead(c)' <=> CutAhead(c))
        BY <1>2, <2>1 DEF WrongInHand, CutAhead
      <4> QED
        BY <4>1, <4>2 DEF Owed, One
    <3> HIDE DEF Lost, Owed
    <3> QED
      BY <1>1, <1>4, <1>5, <2>1, <3>2
  <2> QED
    BY <1>3, <2>2, <2>3 DEF CauseInv, Accounted
<1>7. CASE Switch
  <2>1. cookie' = cookie /\ faults' = faults + 1 /\ breaks' = breaks /\ live' = live
    BY <1>7 DEF Switch, Fault
  <2>2. CookieOrder'
    BY <1>2, <2>1 DEF CauseInv, CookieOrder
  <2>3. ASSUME NEW c \in Callers PROVE Lost(c)' + Owed(c)' <= faults' + breaks' + 2 * (cookie' - 1)
    <3>1. Owed(c)' = Owed(c) /\ Owed(c) \in Nat
      <4>1. (StaleInHand(c)' <=> StaleInHand(c)) /\ (BrokenHeld' <=> BrokenHeld)
        BY <1>2, <2>1 DEF StaleInHand, BrokenHeld, Inside
      <4>2. StaleAhead(c)' <=> StaleAhead(c)
        BY <1>2, <2>1, <4>1 DEF StaleAhead, StaleWriter, StaleReader, StaleCache
      <4>3. (WrongInHand(c)' <=> WrongInHand(c)) /\ (CutAhead(c)' <=> CutAhead(c))
        BY <1>2, <2>1 DEF WrongInHand, CutAhead
      <4> QED BY <4>1, <4>2, <4>3 DEF Owed, One
    <3> HIDE DEF Lost, Owed
    <3> QED
      BY <1>1, <1>4, <1>5, <2>1, <3>1
  <2> QED
    BY <1>3, <2>2, <2>3 DEF CauseInv, Accounted
<1>8. CASE TunnelBreaks
  <2>1. cookie' = cookie /\ faults' = faults + 1 /\ breaks' = breaks + 1
    BY <1>8 DEF TunnelBreaks, Fault
  <2>2. CookieOrder'
    BY <1>2, <2>1 DEF CauseInv, CookieOrder
  <2>3. ASSUME NEW c \in Callers PROVE Lost(c)' + Owed(c)' <= faults' + breaks' + 2 * (cookie' - 1)
    <3>1. Owed(c)' <= Owed(c) + 2 /\ Owed(c) \in Nat /\ Owed(c)' \in Nat
      <4>1. StaleInHand(c)' <=> StaleInHand(c)
        BY <1>2, <2>1 DEF StaleInHand
      <4>2. StaleAhead(c)' <=> StaleAhead(c)
        BY <1>2, <2>1, <4>1 DEF StaleAhead, StaleWriter, StaleReader, StaleCache
      <4>3. WrongInHand(c)' <=> WrongInHand(c)
        BY <1>2 DEF WrongInHand
      <4> QED
        BY <4>1, <4>2, <4>3 DEF Owed, One
    <3> HIDE DEF Lost, Owed
    <3> QED
      BY <1>1, <1>4, <1>5, <2>1, <3>1
  <2> QED
    BY <1>3, <2>2, <2>3 DEF CauseInv, Accounted
<1> QED
  BY <1>6, <1>7, <1>8

(* Nothing is lost or owed at first. *)
LEMMA CauseInvInitially == Init => CauseInv
<1> SUFFICES ASSUME Init PROVE CauseInv
  OBVIOUS
<1>1. /\ Idle.pc = "idle" /\ Idle.sent = 0 /\ Idle.tries = 0
      /\ \A c \in Callers : call[c] = Idle
  BY DEF Init, Idle, Asking, None
<1>2. /\ cookie = 1 /\ faults = 0 /\ breaks = 0 /\ cache.content = 0 /\ cache.refresh = FALSE
      /\ guard.tunnel = None
  BY DEF Init, None
<1>3. CookieOrder
  BY <1>1, <1>2 DEF CookieOrder
<1>4. Tunnelled
  BY <1>1 DEF Tunnelled, Using, Locking
<1>5. ~BrokenHeld /\ ~StaleCache
  BY <1>1, <1>2 DEF BrokenHeld, StaleCache, Inside, Locking, None
<1>6. ASSUME NEW c \in Callers PROVE Lost(c) + Owed(c) <= faults + breaks + 2 * (cookie - 1)
  <2>1. ~StaleInHand(c) /\ ~WrongInHand(c) /\ ~StaleAhead(c) /\ ~CutAhead(c)
    BY <1>1, <1>5 DEF StaleInHand, WrongInHand, CutAhead, StaleAhead, StaleWriter, StaleReader
  <2>2. Lost(c) = 0 /\ Owed(c) = 0
    BY <1>1, <1>5, <2>1 DEF Lost, Owed, One
  <2> QED
    BY <1>2, <2>2
<1> QED
  BY <1>3, <1>4, <1>6 DEF CauseInv, Accounted

LEMMA CauseInvKept == ClientInv /\ CauseInv /\ [Next]_vars => CauseInv'
<1> SUFFICES ASSUME ClientInv, CauseInv, [Next]_vars PROVE CauseInv'
  OBVIOUS
<1>1. CASE UNCHANGED vars
  <2>1. CookieOrder' /\ Tunnelled'
    BY <1>1 DEF vars, CauseInv, CookieOrder, Tunnelled
  <2>2. (BrokenHeld' <=> BrokenHeld) /\ (StaleCache' <=> StaleCache)
    BY <1>1 DEF vars, BrokenHeld, StaleCache, Inside
  <2>3. ASSUME NEW c \in Callers PROVE Lost(c)' = Lost(c) /\ Owed(c)' = Owed(c)
    <3>1. /\ StaleInHand(c)' <=> StaleInHand(c)
          /\ CutAhead(c)' <=> CutAhead(c)
          /\ WrongInHand(c)' <=> WrongInHand(c)
          /\ StaleWriter(c)' <=> StaleWriter(c)
      BY <1>1 DEF vars, StaleInHand, CutAhead, WrongInHand, StaleWriter, StaleReader
    <3>2. StaleAhead(c)' <=> StaleAhead(c)
      BY <2>2, <3>1 DEF StaleAhead
    <3> QED
      BY <1>1, <2>2, <3>1, <3>2 DEF vars, Lost, Owed, One
  <2>4. faults' = faults /\ breaks' = breaks /\ cookie' = cookie
    BY <1>1 DEF vars
  <2> QED
    BY <2>1, <2>3, <2>4 DEF CauseInv, Accounted
<1>2. CASE Switch \/ Rotate \/ TunnelBreaks
  BY <1>2, EnvironmentCause
<1>3. CASE \E c \in Callers : Works(c) \/ Enter(c) \/ UsesCookie(c) \/ Breaks(c)
  <2>1. PICK c \in Callers : Works(c) \/ Enter(c) \/ UsesCookie(c) \/ Breaks(c)
    BY <1>3
  <2>2. CASE Enter(c) \/ UsesCookie(c)
    BY <2>2, TunnelCause, CachedCookieCause, ReadCookieCause DEF UsesCookie
  <2>3. CASE Works(c)
    BY <2>3, QuietCause, TunnelCause, StoreCookieCause, AnswerCause, FailureCause, ResponseCause
       DEF Works
  <2>4. CASE Breaks(c)
    BY <2>4, FailureCause, AnswerCause, ResponseCause DEF Breaks
  <2> QED
    BY <2>1, <2>2, <2>3, <2>4
<1> QED
  BY <1>1, <1>2, <1>3 DEF Next

(* A request loses an attempt only to a fault or to a new cookie: two at   *)
(* the most to one new cookie, two to a tunnel that broke, one to any      *)
(* other fault, for any number of tasks, attempts, faults and restarts of  *)
(* the node. *)
THEOREM ClientFailsForCause == Spec => []FailsForCause
<1>1. ClientInv /\ CauseInv => FailsForCause
  <2> SUFFICES ASSUME ClientInv, CauseInv, NEW c \in Callers
               PROVE  call[c].tries + (IF At(c, "failed") THEN 1 ELSE 0)
                        <= faults + breaks + 2 * (cookie - 1)
    BY DEF FailsForCause
  <2>1. Lost(c) + Owed(c) <= faults + breaks + 2 * (cookie - 1) /\ call[c].tries \in Nat
        /\ faults \in Nat /\ breaks \in Nat /\ cookie \in Nat
    BY OwnFacts DEF CauseInv, Accounted
  <2>2. Owed(c) \in Nat
    BY DEF Owed, One
  <2>3. Lost(c) = call[c].tries + (IF At(c, "failed") THEN 1 ELSE 0) /\ Lost(c) \in Nat
    BY <2>1 DEF Lost, One, At
  <2> HIDE DEF Lost, Owed
  <2> QED
    BY <2>1, <2>2, <2>3
<1>2. Init => ClientInv /\ CauseInv
  BY ClientInvInitially, CauseInvInitially
<1>3. ClientInv /\ CauseInv /\ [Next]_vars => (ClientInv /\ CauseInv)'
  BY ClientInvKept, CauseInvKept
<1> QED
  BY <1>1, <1>2, <1>3, PTL DEF Spec
===============================================================================
