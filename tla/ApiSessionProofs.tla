-------------------------- MODULE ApiSessionProofs --------------------------
(***************************************************************************)
(* Proofs about ApiSession for any number of sessions, tasks, calls and    *)
(* faults: its types, from an invariant that also says how the event loop  *)
(* and the stacks of awaited activations behave.                           *)
(*                                                                         *)
(* The second part is about calls that do not overlap: every session       *)
(* belongs to one task and every account to one session, whatever the      *)
(* numbers of hubs, calls, faults, kicks, logins and restarts.  Under this *)
(* assumption the invariants that TLC checks for single calls hold for all *)
(* values of the constants; that they do not hold for overlapping calls is *)
(* what the violation runs of ApiSession show.  LoneInv says, of each task *)
(* by itself, what each point of request() and async_authenticate() knows  *)
(* about the session and its cache file.                                   *)
(*                                                                         *)
(* The third part is about RequestThrottle, for any tasks, limits and      *)
(* times: a task alone with the session keeps the limit.                   *)
(***************************************************************************)
EXTENDS ApiSession, RequestThrottle, SequenceTheorems, FiniteSetTheorems, TLAPS

\* The event loop runs one task: a task stands at code without an await
\* exactly while it is the one that runs.
OneTaskRuns ==
    /\ running = {} \/ \E t \in Tasks : running = {t}
    /\ \A t \in Tasks :
           running = {t} <=> stack[t] # <<>> /\ Top(t).pc \in SyncPc

\* Activations are stacked: each but the innermost one waits for the login
\* above it, and a login is never outermost.
WellNested ==
    \A t \in Tasks : \A i \in 1 .. Depth(t) :
        /\ stack[t][i].ep = "login" <=> i > 1
        /\ stack[t][i].pc = "login" <=> i < Depth(t)

\* What the steps on stacks preserve together.
StackOK ==
    /\ running \in SUBSET Tasks
    /\ stack \in [Tasks -> Seq(Frame)]
    /\ OneTaskRuns
    /\ WellNested

----------------------------------------------------------------------------
(* Sequences used as stacks *)

\* Replacing the last element keeps the others and the length.
LEMMA ReplaceLast ==
    ASSUME NEW S, NEW s \in Seq(S), s # <<>>, NEW e \in S
    PROVE  LET r == [s EXCEPT ![Len(s)] = e] IN
           /\ r \in Seq(S) /\ Len(r) = Len(s) /\ r # <<>>
           /\ Len(s) \in Nat \ {0}
           /\ r[Len(s)] = e
           /\ \A i \in 1 .. Len(s) : i # Len(s) => r[i] = s[i]
<1>1. Len(s) \in Nat \ {0}
  OBVIOUS
<1> DEFINE r == [s EXCEPT ![Len(s)] = e]
<1>2. r \in [1 .. Len(s) -> S]
  BY <1>1
<1>3. r \in Seq(S) /\ Len(r) = Len(s)
  BY <1>1, <1>2
<1>4. r # <<>>
  BY <1>1, <1>3
<1>5. r[Len(s)] = e /\ \A i \in 1 .. Len(s) : i # Len(s) => r[i] = s[i]
  BY <1>1
<1> QED
  BY <1>1, <1>3, <1>4, <1>5

\* A prefix of a sequence.
LEMMA Prefix ==
    ASSUME NEW S, NEW s \in Seq(S), NEW n \in Nat, n <= Len(s)
    PROVE  /\ SubSeq(s, 1, n) \in Seq(S) /\ Len(SubSeq(s, 1, n)) = n
           /\ \A i \in 1 .. n : SubSeq(s, 1, n)[i] = s[i]
<1>1. \A i \in 1 .. n : s[i] \in S
  OBVIOUS
<1> QED
  BY <1>1, SubSeqProperties

\* Appending to a sequence.
LEMMA OneMore ==
    ASSUME NEW S, NEW q \in Seq(S), NEW n \in Nat, Len(q) = n, NEW e \in S
    PROVE  /\ Append(q, e) \in Seq(S) /\ Len(Append(q, e)) = n + 1
           /\ Append(q, e) # <<>> /\ Append(q, e)[n + 1] = e
           /\ \A i \in 1 .. n : Append(q, e)[i] = q[i]
<1>1. /\ Append(q, e) \in Seq(S) /\ Append(q, e) # <<>>
      /\ Len(Append(q, e)) = n + 1 /\ Append(q, e)[n + 1] = e
  BY AppendProperties
<1>2. \A i \in 1 .. n : Append(q, e)[i] = q[i]
  BY AppendProperties
<1> QED
  BY <1>1, <1>2

\* Dropping the last two elements and appending another one.
LEMMA SwapTail ==
    ASSUME NEW S, NEW s \in Seq(S), Len(s) > 1, NEW e \in S
    PROVE  LET r == Append(SubSeq(s, 1, Len(s) - 2), e) IN
           /\ r \in Seq(S) /\ Len(r) = Len(s) - 1 /\ r # <<>>
           /\ r[Len(s) - 1] = e
           /\ \A i \in 1 .. Len(s) - 2 : r[i] = s[i]
<1>1. PICK n \in Nat : n = Len(s) - 2
  OBVIOUS
<1>2. PICK q : q = SubSeq(s, 1, n)
  OBVIOUS
<1>3. q \in Seq(S) /\ Len(q) = n /\ \A i \in 1 .. n : q[i] = s[i]
  <2>1. n <= Len(s)
    BY <1>1
  <2> QED
    BY <1>2, <2>1, Prefix
<1>4. /\ Append(q, e) \in Seq(S) /\ Len(Append(q, e)) = n + 1
      /\ Append(q, e) # <<>> /\ Append(q, e)[n + 1] = e
      /\ \A i \in 1 .. n : Append(q, e)[i] = q[i]
  BY <1>3, OneMore
<1>5. n + 1 = Len(s) - 1
  BY <1>1
<1> QED
  BY <1>1, <1>2, <1>3, <1>4, <1>5

----------------------------------------------------------------------------
(* The four ways a step changes a stack *)

\* Rewriting the innermost activation without waiting for a login.
LEMMA PutStep ==
    ASSUME StackOK, NEW t \in Tasks, stack[t] # <<>>, NEW f \in Frame,
           f.ep = Top(t).ep, f.pc # "login", Top(t).pc # "login", Put(t, f),
           running' \in {{}, {t}, running},
           f.pc \in SyncPc <=> running' = {t},
           \A u \in Tasks \ {t} : running' = {u} <=> running = {u}
    PROVE  StackOK'
<1> DEFINE r == [stack[t] EXCEPT ![Len(stack[t])] = f]
<1>0. stack[t] \in Seq(Frame)
  BY DEF StackOK
<1>1. /\ r \in Seq(Frame) /\ Len(r) = Len(stack[t]) /\ r # <<>>
      /\ Len(stack[t]) \in Nat \ {0}
      /\ r[Len(stack[t])] = f
      /\ \A i \in 1 .. Len(stack[t]) : i # Len(stack[t]) => r[i] = stack[t][i]
  BY <1>0, ReplaceLast
<1>2. stack' = [stack EXCEPT ![t] = r]
  BY DEF Put, Depth
<1>3. stack' \in [Tasks -> Seq(Frame)] /\ stack'[t] = r
      /\ \A u \in Tasks \ {t} : stack'[u] = stack[u]
  BY <1>1, <1>2 DEF StackOK
<1> HIDE DEF r
<1>4. running' \in SUBSET Tasks
  BY DEF StackOK
<1>5. OneTaskRuns'
  BY ZenonT(40), <1>1, <1>3 DEF StackOK, OneTaskRuns, Top, Depth
<1>6. WellNested'
  <2>1. ASSUME NEW u \in Tasks, NEW i \in 1 .. Len(stack'[u])
        PROVE  /\ stack'[u][i].ep = "login" <=> i > 1
               /\ stack'[u][i].pc = "login" <=> i < Len(stack'[u])
    <3>1. \A k \in 1 .. Len(stack[u]) :
            /\ stack[u][k].ep = "login" <=> k > 1
            /\ stack[u][k].pc = "login" <=> k < Len(stack[u])
      BY DEF StackOK, WellNested, Depth
    <3>2. CASE u # t
      <4>1. stack'[u] = stack[u]
        BY <1>3, <3>2
      <4> QED BY <2>1, <3>1, <4>1
    <3>3. CASE u = t
      <4> DEFINE n == Len(stack[t])
      <4>1. stack'[u] = r /\ Len(r) = n /\ n \in Nat \ {0} /\ i \in 1..n
        BY <1>1, <1>3, <2>1, <3>3
      <4>2. stack[t][n].ep = f.ep /\ stack[t][n].pc # "login" /\ f.pc # "login"
        BY DEF Top, Depth
      <4>3. r[n] = f /\ \A k \in 1..n : k # n => r[k] = stack[t][k]
        BY <1>1
      <4> HIDE DEF n
      <4>4. /\ stack[t][i].ep = "login" <=> i > 1
            /\ stack[t][i].pc = "login" <=> i < n
        BY <3>1, <3>3, <4>1 DEF n
      <4>5. CASE i = n
        BY ONLY <4>1, <4>2, <4>3, <4>4, <4>5
      <4>6. CASE i # n
        <5>1. r[i] = stack[t][i]
          BY ONLY <4>1, <4>3, <4>6
        <5> QED BY ONLY <4>1, <4>4, <5>1
      <4> QED BY <4>5, <4>6
    <3> QED BY <3>2, <3>3
  <2> QED BY ONLY <2>1 DEF WellNested, Depth
<1> QED
  BY <1>3, <1>4, <1>5, <1>6 DEF StackOK

\* The call returns or raises.
LEMMA DropStep ==
    ASSUME StackOK, NEW t \in Tasks, stack' = [stack EXCEPT ![t] = <<>>],
           running \in {{}, {t}}, running' = {}
    PROVE  StackOK'
<1>1. <<>> \in Seq(Frame)
  OBVIOUS
<1>2. stack' \in [Tasks -> Seq(Frame)] /\ stack'[t] = <<>>
      /\ \A u \in Tasks \ {t} : stack'[u] = stack[u]
  BY <1>1 DEF StackOK
<1>3. OneTaskRuns'
  BY <1>2 DEF StackOK, OneTaskRuns, Top, Depth
<1>4. WellNested'
  BY <1>2 DEF StackOK, WellNested, Depth
<1> QED
  BY <1>2, <1>3, <1>4 DEF StackOK

\* A task without activations starts one.
LEMMA FirstStep ==
    ASSUME StackOK, NEW t \in Tasks, NEW f \in Frame,
           f.ep # "login", f.pc \in SyncPc,
           stack' = [stack EXCEPT ![t] = <<f>>], running = {}, running' = {t}
    PROVE  StackOK'
<1>1. <<f>> \in Seq(Frame) /\ Len(<<f>>) = 1 /\ <<f>>[1] = f /\ <<f>> # <<>>
  OBVIOUS
<1>2. stack' \in [Tasks -> Seq(Frame)] /\ stack'[t] = <<f>>
      /\ \A u \in Tasks \ {t} : stack'[u] = stack[u]
  BY <1>1 DEF StackOK
<1>3. f.pc # "login"
  BY DEF SyncPc
<1>4. OneTaskRuns'
  BY <1>1, <1>2 DEF StackOK, OneTaskRuns, Top, Depth
<1>5. WellNested'
  BY <1>1, <1>2, <1>3 DEF StackOK, WellNested, Depth
<1> QED
  BY <1>2, <1>4, <1>5 DEF StackOK

\* An authentication awaits its login request.
LEMMA PushStep ==
    ASSUME StackOK, NEW t \in Tasks, stack[t] # <<>>,
           running = {t}, running' = {t}, Top(t).pc # "login",
           stack' = [stack EXCEPT ![t] =
               Append([@ EXCEPT ![Len(@)].pc = "login"],
                      NewFrame("login", "entry"))]
    PROVE  StackOK'
<1> DEFINE s == stack[t]
           g == [s[Len(s)] EXCEPT !.pc = "login"]
           n == NewFrame("login", "entry")
           q == [s EXCEPT ![Len(s)] = g]
           r == Append(q, n)
<1>1. s \in Seq(Frame) /\ Len(s) \in Nat \ {0} /\ s[Len(s)] \in Frame
  BY DEF StackOK
<1>2. g \in Frame /\ g.ep = s[Len(s)].ep /\ g.pc = "login"
  BY <1>1 DEF Frame, AwaitPc
<1>3. n \in Frame /\ n.ep = "login" /\ n.pc = "entry"
  BY DEF NewFrame, Frame, SyncPc
<1>4. /\ q \in Seq(Frame) /\ Len(q) = Len(s) /\ q[Len(s)] = g
      /\ \A i \in 1 .. Len(s) : i # Len(s) => q[i] = s[i]
  BY <1>1, <1>2, ReplaceLast
<1> HIDE DEF g, n, q
<1>5. /\ r \in Seq(Frame) /\ Len(r) = Len(s) + 1 /\ r # <<>>
      /\ r[Len(s) + 1] = n
      /\ \A i \in 1 .. Len(s) : r[i] = q[i]
  BY <1>1, <1>3, <1>4
<1>6. stack' = [stack EXCEPT ![t] = r]
  BY DEF g, n, q
<1> HIDE DEF r
<1>7. stack' \in [Tasks -> Seq(Frame)] /\ stack'[t] = r
      /\ \A u \in Tasks \ {t} : stack'[u] = stack[u]
  BY <1>5, <1>6 DEF StackOK
<1>8. OneTaskRuns'
  BY ZenonT(40), <1>1, <1>3, <1>5, <1>7 DEF StackOK, OneTaskRuns, Top, Depth, SyncPc
<1>9. WellNested'
  BY <1>1, <1>2, <1>3, <1>4, <1>5, <1>7 DEF StackOK, WellNested, Depth
<1> QED
  BY <1>7, <1>8, <1>9 DEF StackOK

\* The login is answered and the activation below it goes on.
LEMMA PopStep ==
    ASSUME StackOK, NEW t \in Tasks, NEW tok \in Nat, stack[t] # <<>>,
           Top(t).ep = "login", running = {}, running' = {},
           stack' = [stack EXCEPT ![t] =
               Append(SubSeq(@, 1, Len(@) - 2),
                      [stack[t][Depth(t) - 1] EXCEPT !.pc = "open", !.tok = tok])]
    PROVE  StackOK'
<1> DEFINE n == Len(stack[t])
           g == [stack[t][n - 1] EXCEPT !.pc = "open", !.tok = tok]
           r == Append(SubSeq(stack[t], 1, n - 2), g)
<1>1. stack[t] \in Seq(Frame) /\ n \in Nat \ {0}
  BY DEF StackOK
<1>2. n > 1
  <2>1. stack[t][n].ep = "login"
    BY DEF Top, Depth
  <2>2. \A i \in 1 .. n : stack[t][i].ep = "login" <=> i > 1
    BY DEF StackOK, WellNested, Depth
  <2> QED
    BY <1>1, <2>1, <2>2
<1>3. stack[t][n - 1] \in Frame
  BY <1>1, <1>2
<1>4. g \in Frame /\ g.ep = stack[t][n - 1].ep /\ g.pc = "open"
  BY <1>3 DEF Frame, AwaitPc
<1>5. /\ r \in Seq(Frame) /\ Len(r) = n - 1 /\ r # <<>> /\ r[n - 1] = g
      /\ \A i \in 1 .. n - 2 : r[i] = stack[t][i]
  <2> HIDE DEF g
  <2> QED
    BY <1>1, <1>2, <1>4, SwapTail
<1>6. stack' = [stack EXCEPT ![t] = r]
  BY DEF Depth
<1> HIDE DEF r, g
<1>7. stack' \in [Tasks -> Seq(Frame)] /\ stack'[t] = r
      /\ \A u \in Tasks \ {t} : stack'[u] = stack[u]
  BY <1>5, <1>6 DEF StackOK
<1>8. OneTaskRuns'
  BY <1>1, <1>2, <1>4, <1>5, <1>7 DEF StackOK, OneTaskRuns, Top, Depth, SyncPc
<1>9. WellNested'
  <2>1. \A i \in 1 .. n : (stack[t][i].ep = "login" <=> i > 1)
                          /\ (stack[t][i].pc = "login" <=> i < n)
    BY DEF StackOK, WellNested, Depth
  <2>2. \A i \in 1 .. n - 1 : (r[i].ep = "login" <=> i > 1)
                              /\ (r[i].pc = "login" <=> i < n - 1)
    <3> SUFFICES ASSUME NEW i \in 1 .. n - 1
                 PROVE  (r[i].ep = "login" <=> i > 1)
                        /\ (r[i].pc = "login" <=> i < n - 1)
      OBVIOUS
    <3>1. CASE i = n - 1
      BY <1>1, <1>2, <1>4, <1>5, <2>1, <3>1
    <3>2. CASE i # n - 1
      <4>1. i \in 1 .. n - 2 /\ i \in 1 .. n /\ i < n /\ i < n - 1
        BY <1>1, <1>2, <3>2
      <4>2. r[i] = stack[t][i]
        BY <1>5, <4>1
      <4> QED
        BY <2>1, <4>1, <4>2
    <3> QED
      BY <3>1, <3>2
  <2> QED
    BY <1>5, <1>7, <2>2 DEF StackOK, WellNested, Depth
<1> QED
  BY <1>7, <1>8, <1>9 DEF StackOK

----------------------------------------------------------------------------
(* Steps of the specification *)

LEMMA TopFrame ==
    ASSUME StackOK, NEW t \in Tasks, stack[t] # <<>>
    PROVE  Top(t) \in Frame
<1>1. stack[t] \in Seq(Frame) /\ Len(stack[t]) \in Nat \ {0}
  BY DEF StackOK
<1> QED
  BY <1>1 DEF Top, Depth

\* A task at an await is not the one that runs.
LEMMA AwaitRuns ==
    ASSUME StackOK, NEW t \in Tasks, stack[t] # <<>>, Top(t).pc \notin SyncPc
    PROVE  running # {t}
BY DEF StackOK, OneTaskRuns

\* A step that moves the innermost activation of t to pc.
LEMMA GotoStep ==
    ASSUME StackOK, NEW t \in Tasks, stack[t] # <<>>,
           NEW pc \in (SyncPc \cup AwaitPc) \ {"login"}, Top(t).pc # "login",
           Goto(t, pc) \/ Proceed(t, pc),
           running' \in {{}, {t}, running},
           pc \in SyncPc <=> running' = {t},
           \A u \in Tasks \ {t} : running' = {u} <=> running = {u}
    PROVE  StackOK'
<1>1. Top(t) \in Frame
  BY TopFrame
<1>2. CASE Goto(t, pc)
  <2> DEFINE f == [Top(t) EXCEPT !.pc = pc]
  <2>1. f \in Frame /\ f.ep = Top(t).ep /\ f.pc = pc
    BY <1>1 DEF Frame
  <2>2. Put(t, f)
    BY <1>2 DEF Goto
  <2> HIDE DEF f
  <2> QED
    BY <2>1, <2>2, PutStep
<1>3. CASE Proceed(t, pc)
  <2> DEFINE f == NewFrame(Top(t).ep, pc)
  <2>1. f \in Frame /\ f.ep = Top(t).ep /\ f.pc = pc
    BY <1>1 DEF Frame, NewFrame
  <2>2. Put(t, f)
    BY <1>3 DEF Proceed
  <2> HIDE DEF f
  <2> QED
    BY <2>1, <2>2, PutStep
<1> QED
  BY <1>2, <1>3

USE DEF Resumes, Runs, At

\* 401 and 403.
LEMMA RejectedStep ==
    ASSUME StackOK, NEW t \in Tasks, Resumes(t, "sent"), Rejected(t)
    PROVE  StackOK'
<1>1. CASE Raise(t)
  BY <1>1, DropStep DEF Raise
<1>2. CASE /\ Put(t, [Top(t) EXCEPT !.pc = "restart", !.why = "kicked"])
           /\ running' = {t}
  <2> DEFINE f == [Top(t) EXCEPT !.pc = "restart", !.why = "kicked"]
  <2>1. f \in Frame /\ f.ep = Top(t).ep /\ f.pc = "restart"
    BY TopFrame DEF Frame, SyncPc
  <2>2. Put(t, f)
    BY <1>2
  <2> HIDE DEF f
  <2> QED
    BY <1>2, <2>1, <2>2, PutStep DEF SyncPc
<1> QED
  BY <1>1, <1>2 DEF Rejected

\* 429, http errors and busy answers.
LEMMA RepeatStep ==
    ASSUME StackOK, NEW t \in Tasks, NEW kind, Resumes(t, "sent"),
           RepeatOrRaise(t, kind)
    PROVE  StackOK'
<1>1. CASE Raise(t)
  BY <1>1, DropStep DEF Raise
<1>2. CASE Proceed(t, "entry") /\ running' = {t}
  BY <1>2, GotoStep DEF SyncPc, AwaitPc
<1>3. CASE Proceed(t, "backoff") /\ UNCHANGED running
  BY <1>3, GotoStep DEF SyncPc, AwaitPc
<1> QED
  BY <1>1, <1>2, <1>3 DEF RepeatOrRaise

\* Login data are used.
LEMMA UseLoginStep ==
    ASSUME StackOK, NEW t \in Tasks, NEW pc, pc # "login", Resumes(t, pc),
           UseLogin(t)
    PROVE  StackOK'
<1> DEFINE in == loggedIn[Owner[t]] /\ Top(t).tok # 0
           next == NextPc(Top(t), in)
<1>1. CASE next = "raise" /\ Raise(t)
  BY <1>1, DropStep DEF Raise
<1>2. CASE next = "return" /\ Return(t)
  BY <1>2, DropStep DEF Return
<1>3. CASE next \notin {"raise", "return"} /\ Proceed(t, next) /\ running' = {t}
  <2>1. next \in SyncPc
    BY <1>3, TopFrame DEF NextPc, SyncPc, Frame
  <2> QED
    BY <1>3, <2>1, GotoStep DEF SyncPc
<1> QED
  BY <1>1, <1>2, <1>3 DEF UseLogin

----------------------------------------------------------------------------
(* The types of everything but the stacks *)

DataOK ==
    /\ loggedIn \in [Sessions -> BOOLEAN] /\ token \in [Sessions -> Nat]
    /\ retry \in [Sessions -> Flag] /\ fileTime \in [Sessions -> Nat]
    /\ file \in [Files -> FileState] /\ clock \in [Files -> Nat]
    /\ header \in Nat /\ issued \in Seq(Sessions)
    /\ dropped \in SUBSET Nat /\ expired \in SUBSET Nat
    /\ repeats \in [Tasks -> [Cause -> 0 .. RepeatCap]]
    /\ result \in [Tasks -> {"none", "ok", "error"}]
    /\ disturbed \in [Tasks -> BOOLEAN]
    /\ calls \in [Tasks -> Nat]
    /\ faults \in Nat /\ kicks \in Nat /\ restarts \in Nat

\* The inductive invariant.
IInv == StackOK /\ DataOK

LEMMA OwnerFile ==
    ASSUME DataOK, NEW t \in Tasks
    PROVE  /\ Owner[t] \in Sessions /\ Account[Owner[t]] \in Files
           /\ File(Owner[t]) \in FileState
<1>1. Owner[t] \in Sessions
  BY SessionAssumption
<1>2. Account[Owner[t]] \in Files
  BY <1>1 DEF Files
<1> QED
  BY <1>1, <1>2 DEF DataOK, File

LEMMA IssuedLength ==
    ASSUME DataOK
    PROVE  Len(issued) \in Nat
BY DEF DataOK

----------------------------------------------------------------------------
(* Every step keeps the stacks in order *)

\* The code of the integration between its awaits.
LEMMA CodeStack ==
    ASSUME IInv, NEW t \in Tasks, Code(t)
    PROVE  StackOK'
<1> USE DEF SyncPc, AwaitPc
<1>0. StackOK /\ DataOK
  BY DEF IInv
<1>a. stack[t] # <<>>
  BY DEF Code, CheckExpiration, CheckLogin, GenerateHeader, Send, Backoff,
         Restart, Authenticate, ReadFile, UseCachedLogin, OpenFile, StampFile,
         CloseFile, UseNewLogin
<1>b. Top(t) \in Frame
  BY <1>0, <1>a, TopFrame
<1>1. CASE CheckExpiration(t)
  <2>1. CASE Goto(t, "check")
    BY <1>0, <1>1, <2>1, GotoStep DEF CheckExpiration
  <2>2. CASE Put(t, [Top(t) EXCEPT !.pc = "restart", !.why = "expired"])
    <3> DEFINE f == [Top(t) EXCEPT !.pc = "restart", !.why = "expired"]
    <3>1. f \in Frame /\ f.ep = Top(t).ep /\ f.pc = "restart"
      BY <1>b DEF Frame
    <3>2. Put(t, f)
      BY <2>2
    <3> HIDE DEF f
    <3> QED
      BY <1>0, <1>1, <3>1, <3>2, PutStep DEF CheckExpiration
  <2> QED
    BY <1>1, <2>1, <2>2 DEF CheckExpiration
<1>2. CASE CheckLogin(t)
  <2>1. CASE Goto(t, "header")
    BY <1>0, <1>2, <2>1, GotoStep DEF CheckLogin
  <2>2. CASE Put(t, [Top(t) EXCEPT !.pc = "auth", !.why = "check"])
    <3> DEFINE f == [Top(t) EXCEPT !.pc = "auth", !.why = "check"]
    <3>1. f \in Frame /\ f.ep = Top(t).ep /\ f.pc = "auth"
      BY <1>b DEF Frame
    <3>2. Put(t, f)
      BY <2>2
    <3> HIDE DEF f
    <3> QED
      BY <1>0, <1>2, <3>1, <3>2, PutStep DEF CheckLogin
  <2> QED
    BY <1>2, <2>1, <2>2 DEF CheckLogin
<1>3. CASE GenerateHeader(t)
  BY <1>0, <1>3, GotoStep DEF GenerateHeader
<1>4. CASE Send(t)
  <2> DEFINE f == [Top(t) EXCEPT !.pc = "sent", !.tok = header]
  <2>1. f \in Frame /\ f.ep = Top(t).ep /\ f.pc = "sent"
    BY <1>0, <1>b DEF Frame, DataOK
  <2>2. Put(t, f)
    BY <1>4 DEF Send
  <2> HIDE DEF f
  <2> QED
    BY <1>0, <1>4, <2>1, <2>2, PutStep DEF Send
<1>5. CASE Backoff(t)
  BY <1>0, <1>5, GotoStep DEF Backoff
<1>6. CASE Restart(t)
  BY <1>0, <1>6, GotoStep DEF Restart
<1>7. CASE Authenticate(t)
  <2>1. CASE Goto(t, "load") /\ running' = {}
    BY <1>0, <1>7, <2>1, GotoStep DEF Authenticate
  <2>2. CASE /\ stack' = [stack EXCEPT ![t] =
                    Append([@ EXCEPT ![Len(@)].pc = "login"],
                           NewFrame("login", "entry"))]
             /\ UNCHANGED running
    BY <1>0, <1>7, <2>2, PushStep DEF Authenticate
  <2> QED
    BY <1>7, <2>1, <2>2 DEF Authenticate
<1>8. CASE ReadFile(t)
  <2> DEFINE f == [Top(t) EXCEPT !.pc = "apply", !.tok = File(Owner[t]).tok]
  <2>1. f \in Frame /\ f.ep = Top(t).ep /\ f.pc = "apply"
    BY <1>0, <1>b, OwnerFile DEF Frame, FileState
  <2>2. Put(t, f)
    BY <1>8 DEF ReadFile
  <2> HIDE DEF f
  <2> QED
    BY <1>0, <1>8, <2>1, <2>2, PutStep, AwaitRuns DEF ReadFile
<1>9. CASE UseCachedLogin(t)
  <2>1. CASE Raise(t)
    BY <1>0, <1>9, <2>1, DropStep DEF UseCachedLogin, Raise
  <2>2. CASE UseLogin(t)
    BY <1>0, <1>9, <2>2, UseLoginStep DEF UseCachedLogin
  <2> QED
    BY <1>9, <2>1, <2>2 DEF UseCachedLogin
<1>10. CASE OpenFile(t)
  <2>1. PICK ino \in Nat : Put(t, [Top(t) EXCEPT !.pc = "write", !.ino = ino])
    <3> DEFINE a == Account[Owner[t]]
               ino == IF file[a] = NoFile THEN clock[a] + 1 ELSE file[a].ino
    <3>1. file[a] \in FileState /\ clock[a] \in Nat
      BY <1>0, OwnerFile DEF DataOK
    <3>2. ino \in Nat
      BY <3>1 DEF FileState
    <3>3. Put(t, [Top(t) EXCEPT !.pc = "write", !.ino = ino])
      BY <1>10 DEF OpenFile
    <3> QED
      BY <3>2, <3>3
  <2> DEFINE f == [Top(t) EXCEPT !.pc = "write", !.ino = ino]
  <2>2. f \in Frame /\ f.ep = Top(t).ep /\ f.pc = "write"
    BY <1>b DEF Frame
  <2>3. Put(t, f)
    BY <2>1
  <2> HIDE DEF f
  <2> QED
    BY <1>0, <1>10, <2>2, <2>3, PutStep, AwaitRuns DEF OpenFile
<1>11. CASE StampFile(t)
  <2>1. CASE Raise(t)
    BY <1>0, <1>11, <2>1, DropStep DEF StampFile, Raise
  <2>2. CASE Goto(t, "close") /\ UNCHANGED running
    BY <1>0, <1>11, <2>2, GotoStep DEF StampFile
  <2> QED
    BY <1>11, <2>1, <2>2 DEF StampFile
<1>12. CASE CloseFile(t)
  BY <1>0, <1>12, GotoStep, AwaitRuns DEF CloseFile
<1>13. CASE UseNewLogin(t)
  BY <1>0, <1>13, UseLoginStep DEF UseNewLogin
<1> QED
  BY <1>1, <1>2, <1>3, <1>4, <1>5, <1>6, <1>7, <1>8, <1>9, <1>10, <1>11,
     <1>12, <1>13 DEF Code

\* The answers of the cloud.
LEMMA AnswerStack ==
    ASSUME IInv, NEW t \in Tasks, Answer(t)
    PROVE  StackOK'
<1>0. StackOK /\ DataOK
  BY DEF IInv
<1>1. CASE AnswerOk(t)
  BY <1>0, <1>1, DropStep DEF AnswerOk, Return
<1>2. CASE AnswerLogin(t)
  <2>1. Len(issued) + 1 \in Nat
    BY <1>0, IssuedLength
  <2> QED
    BY <1>0, <1>2, <2>1, PopStep DEF AnswerLogin
<1>3. CASE AnswerKicked(t)
  BY <1>0, <1>3, RejectedStep DEF AnswerKicked
<1>4. CASE AnswerForbidden(t)
  BY <1>0, <1>4, RejectedStep DEF AnswerForbidden, Fault
<1>5. CASE AnswerLimit(t)
  BY <1>0, <1>5, RepeatStep DEF AnswerLimit, Fault
<1>6. CASE AnswerGateway(t)
  BY <1>0, <1>6, RepeatStep DEF AnswerGateway, Fault
<1>7. CASE AnswerBusy(t)
  BY <1>0, <1>7, RepeatStep DEF AnswerBusy, Fault
<1>8. CASE AnswerError(t)
  BY <1>0, <1>8, DropStep DEF AnswerError, Fault, Raise
<1> QED
  BY <1>1, <1>2, <1>3, <1>4, <1>5, <1>6, <1>7, <1>8 DEF Answer

----------------------------------------------------------------------------
(* Every step keeps the types *)

\* A repetition is counted up to its cap.
LEMMA CountedType ==
    ASSUME IInv, NEW t \in Tasks, NEW cause \in Cause
    PROVE  Counted(t, cause) \in [Tasks -> [Cause -> 0 .. RepeatCap]]
<1>1. PICK c \in Cause : Counted(t, cause) =
          [repeats EXCEPT ![t][c] = IF @ < RepeatCap THEN @ + 1 ELSE @]
  BY DEF Counted, Cause
<1>2. repeats \in [Tasks -> [Cause -> 0 .. RepeatCap]]
  BY DEF IInv, DataOK
<1>3. repeats[t][c] \in 0 .. RepeatCap /\ RepeatCap = 2
  BY <1>2 DEF RepeatCap
<1>4. (IF repeats[t][c] < RepeatCap THEN repeats[t][c] + 1 ELSE repeats[t][c])
          \in 0 .. RepeatCap
  BY <1>3
<1> QED
  BY <1>1, <1>2, <1>4

\* The results of calls that return or raise.
LEMMA ResultType ==
    ASSUME IInv, NEW t \in Tasks,
           Raise(t) \/ Return(t) \/ UNCHANGED result
    PROVE  result' \in [Tasks -> {"none", "ok", "error"}]
BY DEF IInv, DataOK, Raise, Return

LEMMA RejectedData ==
    ASSUME IInv, NEW t \in Tasks, Rejected(t), faults' \in Nat,
           disturbed' \in [Tasks -> BOOLEAN]
    PROVE  DataOK'
<1>1. repeats' \in [Tasks -> [Cause -> 0 .. RepeatCap]]
  BY ZenonT(40), CountedType DEF Rejected, IInv, DataOK, Cause
<1>2. result' \in [Tasks -> {"none", "ok", "error"}]
  BY ResultType DEF Rejected
<1> QED
  BY <1>1, <1>2 DEF IInv, DataOK, Rejected, connVars, fileVars, cloudVars

LEMMA RepeatData ==
    ASSUME IInv, NEW t \in Tasks, NEW kind \in {"limit", "gateway", "busy"},
           RepeatOrRaise(t, kind), faults' \in Nat,
           disturbed' \in [Tasks -> BOOLEAN], loggedIn' \in [Sessions -> BOOLEAN]
    PROVE  DataOK'
<1>1. repeats' \in [Tasks -> [Cause -> 0 .. RepeatCap]]
  <2>1. kind \in Cause
    BY DEF Cause
  <2>2. Counted(t, kind) \in [Tasks -> [Cause -> 0 .. RepeatCap]]
    BY <2>1, CountedType
  <2>3. repeats' = Counted(t, kind) \/ repeats' = repeats
    BY DEF RepeatOrRaise
  <2> QED
    BY <2>2, <2>3 DEF IInv, DataOK
<1>2. result' \in [Tasks -> {"none", "ok", "error"}]
  BY ResultType DEF RepeatOrRaise
<1>3. retry' \in [Sessions -> Flag]
  BY DEF RepeatOrRaise, IInv, DataOK, Flag
<1> QED
  BY <1>1, <1>2, <1>3 DEF IInv, DataOK, RepeatOrRaise, fileVars, cloudVars

LEMMA FaultData ==
    ASSUME IInv, NEW t \in Tasks, NEW kind, Fault(t, kind)
    PROVE  faults' \in Nat /\ disturbed' \in [Tasks -> BOOLEAN]
BY DEF IInv, DataOK, Fault

LEMMA AnswerData ==
    ASSUME IInv, NEW t \in Tasks, Answer(t)
    PROVE  DataOK'
<1> USE DEF connVars, fileVars, cloudVars, histVars, boundVars
<1>1. CASE AnswerOk(t)
  <2>1. retry' \in [Sessions -> Flag]
    BY <1>1 DEF AnswerOk, IInv, DataOK, Flag
  <2> QED
    BY <1>1, <2>1, ResultType DEF AnswerOk, IInv, DataOK
<1>2. CASE AnswerLogin(t)
  <2>1. Owner[t] \in Sessions
    BY OwnerFile DEF IInv
  <2>2. issued' \in Seq(Sessions)
    BY <1>2, <2>1, AppendProperties DEF AnswerLogin, IInv, DataOK
  <2>3. retry' \in [Sessions -> Flag]
    BY <1>2 DEF AnswerLogin, IInv, DataOK, Flag
  <2> QED
    BY <1>2, <2>2, <2>3 DEF AnswerLogin, IInv, DataOK
<1>3. CASE AnswerKicked(t)
  BY <1>3, RejectedData DEF AnswerKicked, IInv, DataOK
<1>4. CASE AnswerForbidden(t)
  BY <1>4, RejectedData, FaultData DEF AnswerForbidden
<1>5. CASE AnswerLimit(t)
  BY <1>5, RepeatData, FaultData DEF AnswerLimit, IInv, DataOK
<1>6. CASE AnswerGateway(t)
  BY <1>6, RepeatData, FaultData DEF AnswerGateway, IInv, DataOK
<1>7. CASE AnswerBusy(t)
  <2>1. loggedIn' \in [Sessions -> BOOLEAN]
    BY <1>7 DEF AnswerBusy, IInv, DataOK
  <2> QED
    BY <1>7, <2>1, RepeatData, FaultData DEF AnswerBusy
<1>8. CASE AnswerError(t)
  <2>1. loggedIn' \in [Sessions -> BOOLEAN]
    BY <1>8 DEF AnswerError, IInv, DataOK
  <2>2. faults' \in Nat /\ disturbed' \in [Tasks -> BOOLEAN]
    BY <1>8, FaultData DEF AnswerError
  <2>3. result' \in [Tasks -> {"none", "ok", "error"}]
    BY <1>8, ResultType DEF AnswerError
  <2> QED
    BY <1>8, <2>1, <2>2, <2>3 DEF AnswerError, IInv, DataOK
<1> QED
  BY <1>1, <1>2, <1>3, <1>4, <1>5, <1>6, <1>7, <1>8 DEF Answer

\* Login data have the token of the cache file or of the cloud, a number.
LEMMA UseLoginData ==
    ASSUME IInv, NEW t \in Tasks, stack[t] # <<>>, UseLogin(t),
           fileTime' \in [Sessions -> Nat]
    PROVE  DataOK'
<1>1. Top(t).tok \in Nat
  BY TopFrame DEF IInv, Frame
<1>2. token' \in [Sessions -> Nat]
  BY <1>1 DEF UseLogin, IInv, DataOK
<1>3. retry' \in [Sessions -> Flag]
  BY DEF UseLogin, ClearedFlag, IInv, DataOK, Flag
<1>4. result' \in [Tasks -> {"none", "ok", "error"}]
  BY ResultType DEF UseLogin
<1>5. loggedIn' \in [Sessions -> BOOLEAN]
  <2>1. (loggedIn[Owner[t]] /\ Top(t).tok # 0) \in BOOLEAN
    OBVIOUS
  <2>2. loggedIn' = [loggedIn EXCEPT ![Owner[t]] =
                         (loggedIn[Owner[t]] /\ Top(t).tok # 0)]
    BY DEF UseLogin
  <2> QED
    BY <2>1, <2>2 DEF IInv, DataOK
<1> QED
  BY <1>2, <1>3, <1>4, <1>5
  DEF UseLogin, IInv, DataOK, fileVars, cloudVars, boundVars

LEMMA CodeData ==
    ASSUME IInv, NEW t \in Tasks, Code(t)
    PROVE  DataOK'
<1> USE DEF connVars, fileVars, cloudVars, histVars, boundVars
<1>0. /\ Owner[t] \in Sessions /\ Account[Owner[t]] \in Files
      /\ file[Account[Owner[t]]] \in FileState
      /\ clock[Account[Owner[t]]] \in Nat
  BY OwnerFile DEF IInv, DataOK, File
<1>1. CASE CheckExpiration(t)
  <2>1. repeats' \in [Tasks -> [Cause -> 0 .. RepeatCap]]
    BY <1>1, CountedType DEF CheckExpiration, IInv, DataOK, Cause
  <2> QED
    BY <1>1, <2>1 DEF CheckExpiration, IInv, DataOK
<1>2. CASE CheckLogin(t)
  BY <1>2 DEF CheckLogin, IInv, DataOK
<1>3. CASE GenerateHeader(t)
  <2>1. header' \in Nat
    BY <1>0, <1>3 DEF GenerateHeader, IInv, DataOK
  <2> QED
    BY <1>3, <2>1 DEF GenerateHeader, IInv, DataOK
<1>4. CASE Send(t)
  BY <1>4 DEF Send, IInv, DataOK
<1>5. CASE Backoff(t)
  BY <1>5 DEF Backoff, IInv, DataOK
<1>6. CASE Restart(t)
  <2>1. /\ loggedIn' \in [Sessions -> BOOLEAN] /\ token' \in [Sessions -> Nat]
        /\ fileTime' \in [Sessions -> Nat]
    BY <1>6 DEF Restart, IInv, DataOK
  <2>2. file' \in [Files -> FileState]
    BY <1>6 DEF Restart, IInv, DataOK, NoFile, FileState
  <2> QED
    BY <1>6, <2>1, <2>2 DEF Restart, IInv, DataOK
<1>7. CASE Authenticate(t)
  <2>1. retry' \in [Sessions -> Flag]
    BY <1>7 DEF Authenticate, IInv, DataOK, Flag
  <2> QED
    BY <1>7, <2>1 DEF Authenticate, IInv, DataOK
<1>8. CASE ReadFile(t)
  BY <1>8 DEF ReadFile, IInv, DataOK
<1>9. CASE UseCachedLogin(t)
  <2>1. CASE UseLogin(t)
    <3>1. fileTime' \in [Sessions -> Nat]
      BY <1>0, <1>9, <2>1
      DEF UseCachedLogin, IInv, DataOK, File, FileState, Raise
    <3> QED
      BY <1>9, <2>1, <3>1, UseLoginData DEF UseCachedLogin
  <2>2. CASE Raise(t) /\ UNCHANGED <<connVars, fileVars, header, cloudVars,
                                     repeats, disturbed, boundVars>>
    BY <2>2, ResultType DEF IInv, DataOK
  <2> QED
    BY <1>9, <2>1, <2>2 DEF UseCachedLogin
<1>10. CASE OpenFile(t)
  <2> DEFINE a == Account[Owner[t]]
             now == clock[a] + 1
             ino == IF file[a] = NoFile THEN now ELSE file[a].ino
  <2>1. now \in Nat /\ ino \in Nat
    BY <1>0 DEF FileState
  <2>2. [ino |-> ino, ver |-> now, tok |-> 0] \in FileState
    BY <2>1 DEF FileState
  <2>3. clock' \in [Files -> Nat] /\ file' \in [Files -> FileState]
    BY <1>10, <2>1, <2>2 DEF OpenFile, IInv, DataOK
  <2> QED
    BY <1>10, <2>3 DEF OpenFile, IInv, DataOK
<1>11. CASE StampFile(t)
  <2>1. fileTime' \in [Sessions -> Nat]
    BY <1>0, <1>11 DEF StampFile, IInv, DataOK, File, FileState
  <2>2. result' \in [Tasks -> {"none", "ok", "error"}]
    BY <1>11, ResultType DEF StampFile
  <2> QED
    BY <1>11, <2>1, <2>2 DEF StampFile, IInv, DataOK
<1>12. CASE CloseFile(t)
  <2> DEFINE a == Account[Owner[t]]
  <2>1. CASE UNCHANGED fileVars
    BY <1>12, <2>1 DEF CloseFile, IInv, DataOK
  <2>2. CASE \E now \in {file[a].ver, clock[a] + 1} :
                /\ file' = [file EXCEPT ![a].ver = now, ![a].tok = Top(t).tok]
                /\ clock' = [clock EXCEPT ![a] = IF now > @ THEN now ELSE @]
    <3>1. PICK now \in {file[a].ver, clock[a] + 1} :
              /\ file' = [file EXCEPT ![a].ver = now, ![a].tok = Top(t).tok]
              /\ clock' = [clock EXCEPT ![a] = IF now > @ THEN now ELSE @]
      BY <2>2
    <3>2. now \in Nat
      BY <1>0, <3>1 DEF FileState
    <3>3. Top(t).tok \in Nat
      BY <1>12, TopFrame DEF CloseFile, IInv, Frame
    <3>4. clock' \in [Files -> Nat]
      BY <1>0, <3>1, <3>2 DEF IInv, DataOK
    <3>5. file' \in [Files -> FileState]
      BY <1>0, <3>1, <3>2, <3>3 DEF IInv, DataOK, FileState
    <3> QED
      BY <1>12, <3>4, <3>5 DEF CloseFile, IInv, DataOK
  <2> QED
    BY <1>12, <2>1, <2>2 DEF CloseFile
<1>13. CASE UseNewLogin(t)
  BY <1>13, UseLoginData DEF UseNewLogin, IInv, DataOK
<1> QED
  BY <1>1, <1>2, <1>3, <1>4, <1>5, <1>6, <1>7, <1>8, <1>9, <1>10, <1>11,
     <1>12, <1>13 DEF Code

----------------------------------------------------------------------------
(* The theorems *)

LEMMA InitIInv == Init => IInv
<1> SUFFICES ASSUME Init PROVE IInv
  OBVIOUS
<1>1. StackOK
  BY DEF Init, StackOK, OneTaskRuns, WellNested, Depth
<1>2. NoFile \in FileState
  BY DEF NoFile, FileState
<1>3. repeats \in [Tasks -> [Cause -> 0 .. RepeatCap]]
  BY DEF Init, RepeatCap
<1>4. DataOK
  BY <1>2, <1>3 DEF Init, DataOK, Flag
<1> QED
  BY <1>1, <1>4 DEF IInv

LEMMA NextIInv == IInv /\ [Next]_vars => IInv'
<1> SUFFICES ASSUME IInv, [Next]_vars PROVE IInv'
  OBVIOUS
<1> USE DEF connVars, fileVars, cloudVars, histVars, boundVars
<1>1. ASSUME NEW t \in Tasks, Call(t) PROVE IInv'
  <2>1. PICK use \in Uses[t] : stack' = [stack EXCEPT ![t] = <<FirstFrame(use)>>]
    BY <1>1 DEF Call
  <2>2. use \in {"request", "setup", "dialog"}
    BY SessionAssumption
  <2>3. /\ FirstFrame(use) \in Frame /\ FirstFrame(use).ep # "login"
        /\ FirstFrame(use).pc \in SyncPc
    BY <2>2 DEF FirstFrame, NewFrame, Frame, SyncPc
  <2>4. StackOK'
    BY <1>1, <2>1, <2>3, FirstStep DEF Call, IInv
  <2>5. repeats' \in [Tasks -> [Cause -> 0 .. RepeatCap]]
    BY <1>1 DEF Call, IInv, DataOK, RepeatCap
  <2>6. DataOK'
    BY <1>1, <2>5 DEF Call, IInv, DataOK
  <2> QED
    BY <2>4, <2>6 DEF IInv
<1>2. ASSUME NEW t \in Tasks, Code(t) PROVE IInv'
  BY <1>2, CodeStack, CodeData DEF IInv
<1>3. ASSUME NEW t \in Tasks, Answer(t) PROVE IInv'
  BY <1>3, AnswerStack, AnswerData DEF IInv
<1>4. CASE Kick
  <2>1. StackOK'
    BY <1>4 DEF Kick, IInv, StackOK, OneTaskRuns, WellNested, Top, Depth
  <2>2. dropped' \in SUBSET Nat
    BY <1>4, IssuedLength DEF Kick, IInv, DataOK, Tokens
  <2> QED
    BY <1>4, <2>1, <2>2 DEF Kick, IInv, DataOK
<1>5. CASE Expire
  <2>1. StackOK'
    BY <1>5 DEF Expire, IInv, StackOK, OneTaskRuns, WellNested, Top, Depth
  <2>2. expired' \in SUBSET Nat
    BY <1>5, IssuedLength DEF Expire, IInv, DataOK, Tokens
  <2> QED
    BY <1>5, <2>1, <2>2 DEF Expire, IInv, DataOK
<1>6. CASE RestartHomeAssistant
  <2>1. StackOK'
    BY <1>6 DEF RestartHomeAssistant, StackOK, OneTaskRuns, WellNested, Depth
  <2>2. DataOK'
    BY <1>6 DEF RestartHomeAssistant, IInv, DataOK, Flag
  <2> QED
    BY <2>1, <2>2 DEF IInv
<1>7. CASE UNCHANGED vars
  BY <1>7 DEF vars, IInv, StackOK, DataOK, OneTaskRuns, WellNested, Top, Depth
<1> QED
  BY <1>1, <1>2, <1>3, <1>4, <1>5, <1>6, <1>7 DEF Next

LEMMA Inductive == Spec => []IInv
<1> QED
  BY InitIInv, NextIInv, PTL DEF Spec

\* Every variable keeps its type (all of solixapi/session.py).
THEOREM TypeCorrect == Spec => []TypeOK
<1>1. IInv => TypeOK
  BY DEF IInv, StackOK, DataOK, TypeOK
<1> QED
  BY <1>1, Inductive, PTL

----------------------------------------------------------------------------
(* Calls that do not overlap *)


\* One task per session, one session per account.
LoneTasks ==
    /\ \A t, u \in Tasks : Owner[t] = Owner[u] => t = u
    /\ \A s \in Sessions : \E t \in Tasks : Owner[t] = s
    /\ \A s, r \in Sessions : Account[s] = Account[r] => s = r

\* The points of an authentication, and those of a request.
AuthPc == {"restart", "auth", "load", "apply", "login", "open", "write",
           "close", "done"}
RequestPc == {"entry", "check", "header", "delay", "sent"}

\* An activation authenticates only for a reason.
Purpose(f, q) ==
    /\ f.ep = "auth" => f.pc \in AuthPc
    /\ f.ep = "api" /\ f.pc \in AuthPc => f.why # "none"
    /\ f.why = "kicked" => q["kicked"] > 0

\* The activations of a task: at most a caller and the login it awaits, which
\* runs while the retry flag forbids a second one and no token is known.
NestFacts(d, f, b, tok, ret, fl, q) ==
    /\ d <= 2 /\ q["login"] = 0
    /\ d = 1 => f.ep # "login" /\ f.pc # "login" /\ Purpose(f, q)
    /\ d = 2 => /\ f.ep = "login" /\ f.pc \in RequestPc
                /\ ret = "yes" /\ tok = 0 /\ fl = NoFile
                /\ b.ep # "login" /\ Purpose(b, q)
                /\ b.ep = "api" => b.why # "none"

\* What the steps of an authentication know about the cache file.
FileFacts(d, f, log, tok, ft, fl, rst) ==
    /\ tok # 0 => fl # NoFile
    /\ fl # NoFile => fl.ver > 0
    /\ d > 0 =>
         /\ f.pc = "load" => fl # NoFile
         /\ f.pc = "apply" => fl # NoFile /\ f.tok = fl.tok
         /\ f.pc \in {"open", "write", "close", "done"} => log /\ f.tok # 0
         /\ f.pc \in {"write", "close", "done"} => fl # NoFile /\ fl.ino = f.ino
         /\ f.pc = "done" => fl.tok = f.tok
    /\ (d = 0 \/ f.pc \notin {"apply", "open", "write", "close", "done"})
         /\ fl # NoFile /\ ft = fl.ver => tok = fl.tok
    /\ (d = 0 \/ f.pc \notin {"write", "close"}) /\ fl # NoFile /\ rst = 0
         => fl.tok # 0

\* The recovery from a dropped token finds no cached login, and without
\* unhealthy answers nothing sets the flag but a login.
RecoveryFacts(d, f, ret, fl, res, flt) ==
    /\ d = 1 /\ f.why = "kicked" =>
         f.pc \notin {"load", "apply"} /\ (f.pc = "auth" => fl = NoFile)
    /\ flt = 0 => res # "error" /\ (d = 2 \/ ret = "no")

\* The current call was repeated for another cause than c.
Other(q, c) == \E e \in Cause \ {c} : q[e] > 0
Retried == {"limit", "gateway", "busy"}

\* After one repetition the flag, or the other recovery that cleared it, is
\* still there at the next answer.
RepeatFacts(d, f, log, ret, fl, q) ==
    /\ d = 1 /\ f.ep = "api" /\ f.pc \in {"header", "delay", "sent", "backoff"}
         => fl # NoFile \/ log
    /\ q["expired"] > 1 => Other(q, "expired")
    /\ d = 1 /\ f.pc \in {"entry", "backoff"} =>
         q["expired"] = 0 \/ Other(q, "expired")
    /\ \A c \in Retried : q[c] > 0 /\ ~Other(q, c) =>
         /\ q[c] = 1 /\ d <= 1
         /\ d = 1 =>
              /\ ret = c /\ (fl # NoFile \/ log) /\ f.ep = "api"
              /\ f.pc \in RequestPc \cup {"backoff", "auth", "load", "apply"}
              /\ f.pc \in {"auth", "load", "apply"} =>
                   f.why = "check" /\ fl # NoFile

\* The facts about one task.
Lone(t) ==
    LET s == Owner[t] IN
    /\ NestFacts(Depth(t), Top(t), stack[t][1], token[s], retry[s], File(s), repeats[t])
    /\ FileFacts(Depth(t), Top(t), loggedIn[s], token[s], fileTime[s], File(s), restarts)
    /\ RecoveryFacts(Depth(t), Top(t), retry[s], File(s), result[t], faults)
    /\ RepeatFacts(Depth(t), Top(t), loggedIn[s], retry[s], File(s), repeats[t])

\* The inductive invariant.
LoneInv == IInv /\ 0 \notin expired /\ \A t \in Tasks : Lone(t)

----------------------------------------------------------------------------
(* What a step does to the innermost activation *)

\* Replacing the innermost activation.
LEMMA PutView ==
    ASSUME StackOK, NEW t \in Tasks, stack[t] # <<>>, NEW f, f \in Frame, Put(t, f)
    PROVE  /\ Depth(t)' = Depth(t) /\ Top(t)' = f /\ Depth(t) > 0
           /\ Depth(t) > 1 => stack'[t][1] = stack[t][1]
           /\ \A u \in Tasks \ {t} : stack'[u] = stack[u]
<1> DEFINE r == [stack[t] EXCEPT ![Len(stack[t])] = f]
<1>0. stack[t] \in Seq(Frame)
  BY DEF StackOK
<1>1. /\ r \in Seq(Frame) /\ Len(r) = Len(stack[t]) /\ r # <<>>
      /\ Len(stack[t]) \in Nat \ {0}
      /\ r[Len(stack[t])] = f
      /\ \A i \in 1 .. Len(stack[t]) : i # Len(stack[t]) => r[i] = stack[t][i]
  BY <1>0, ReplaceLast
<1>2. stack' = [stack EXCEPT ![t] = r]
  BY DEF Put, Depth
<1>3. stack'[t] = r /\ \A u \in Tasks \ {t} : stack'[u] = stack[u]
  BY <1>1, <1>2 DEF StackOK
<1> HIDE DEF r
<1> QED
  BY <1>1, <1>3 DEF Top, Depth

\* The variables of the other tasks.
Untouched(u) ==
    LET s == Owner[u] IN
    /\ stack'[u] = stack[u] /\ loggedIn'[s] = loggedIn[s] /\ token'[s] = token[s]
    /\ retry'[s] = retry[s] /\ fileTime'[s] = fileTime[s]
    /\ file'[Account[s]] = file[Account[s]] /\ repeats'[u] = repeats[u]
    /\ result'[u] = result[u]

\* The facts about a task survive the steps of the others.
LEMMA UntouchedLone ==
    ASSUME NEW u \in Tasks, Lone(u), Untouched(u), faults' = 0 => faults = 0,
           restarts' = restarts
    PROVE  Lone(u)'
<1>1. Depth(u)' = Depth(u) /\ Top(u)' = Top(u) /\ (File(Owner[u]))' = File(Owner[u])
  BY DEF Untouched, Top, Depth, File
<1>2. (NestFacts(Depth(u), Top(u), stack[u][1], token[Owner[u]], retry[Owner[u]], File(Owner[u]), repeats[u]))'
  BY <1>1 DEF Lone, Untouched, NestFacts, Purpose
<1>3. (FileFacts(Depth(u), Top(u), loggedIn[Owner[u]], token[Owner[u]], fileTime[Owner[u]], File(Owner[u]), restarts))'
  BY <1>1 DEF Lone, Untouched, FileFacts
<1>4. (RecoveryFacts(Depth(u), Top(u), retry[Owner[u]], File(Owner[u]), result[u], faults))'
  BY <1>1 DEF Lone, Untouched, RecoveryFacts
<1>5. (RepeatFacts(Depth(u), Top(u), loggedIn[Owner[u]], retry[Owner[u]], File(Owner[u]), repeats[u]))'
  BY <1>1 DEF Lone, Untouched, RepeatFacts, Other
<1> QED
  BY <1>2, <1>3, <1>4, <1>5 DEF Lone

\* The facts about a task as arguments: its depth, the innermost activation,
\* the one below it, and the variables of its session.
FactsHold(t, d, f, b, log, tok, ret, ft, fl, q, res, flt, rst) ==
    /\ NestFacts(d, f, b, tok, ret, fl, q)
    /\ FileFacts(d, f, log, tok, ft, fl, rst)
    /\ RecoveryFacts(d, f, ret, fl, res, flt)
    /\ RepeatFacts(d, f, log, ret, fl, q)

NextFacts(t, d, f, b) ==
    LET s == Owner[t] IN
    FactsHold(t, d, f, b, loggedIn'[s], token'[s], retry'[s], fileTime'[s],
              file'[Account[s]], repeats'[t], result'[t], faults', restarts')

\* With one activation nothing is below it, with none nothing is at work.
LEMMA BelowIrrelevant ==
    ASSUME NEW t, NEW d, NEW f, NEW b, NEW c, d # 2, NextFacts(t, d, f, b)
    PROVE  NextFacts(t, d, f, c)
BY DEF NextFacts, FactsHold, NestFacts

\* The facts after a step, put together.
LEMMA LoneFromFacts ==
    ASSUME NEW t \in Tasks, NextFacts(t, Depth(t)', Top(t)', stack'[t][1])
    PROVE  Lone(t)'
<1>1. (File(Owner[t]))' = file'[Account[Owner[t]]]
  BY DEF File
<1> QED
  BY <1>1 DEF NextFacts, FactsHold, Lone

\* A step that replaces the innermost activation.
LEMMA PutLone ==
    ASSUME StackOK, NEW t \in Tasks, stack[t] # <<>>, NEW f \in Frame, Put(t, f),
           NextFacts(t, Depth(t), f, stack[t][1])
    PROVE  Lone(t)'
<1>1. /\ Depth(t)' = Depth(t) /\ Top(t)' = f /\ Depth(t) > 0
      /\ Depth(t) > 1 => stack'[t][1] = stack[t][1]
  BY PutView
<1>2. NextFacts(t, Depth(t), f, stack'[t][1])
  <2>1. CASE Depth(t) = 2
    BY <1>1, <2>1
  <2>2. CASE Depth(t) # 2
    BY <2>2, BelowIrrelevant
  <2> QED
    BY <2>1, <2>2
<1> QED
  BY <1>1, <1>2, LoneFromFacts

\* A step that ends the call.
LEMMA DropLone ==
    ASSUME StackOK, NEW t \in Tasks, stack' = [stack EXCEPT ![t] = <<>>],
           NEW f, NEW b, NextFacts(t, 0, f, b)
    PROVE  Lone(t)'
<1>1. stack'[t] = <<>>
  BY DEF StackOK
<1>2. Depth(t)' = 0
  BY <1>1 DEF Depth
<1>3. \A g, c : NextFacts(t, 0, g, c)
  BY DEF NextFacts, FactsHold, NestFacts, FileFacts, RecoveryFacts, RepeatFacts
<1> QED
  BY <1>2, <1>3, LoneFromFacts

\* A step that starts a call.
LEMMA FirstLone ==
    ASSUME StackOK, NEW t \in Tasks, NEW f \in Frame,
           stack' = [stack EXCEPT ![t] = <<f>>], NextFacts(t, 1, f, f)
    PROVE  Lone(t)'
<1>1. stack'[t] = <<f>>
  BY DEF StackOK
<1>2. Depth(t)' = 1 /\ Top(t)' = f /\ stack'[t][1] = f
  BY <1>1 DEF Depth, Top
<1> QED
  BY <1>2, LoneFromFacts

\* A step that starts the login.
LEMMA PushLone ==
    ASSUME StackOK, NEW t \in Tasks, Depth(t) = 1,
           stack' = [stack EXCEPT ![t] =
               Append([@ EXCEPT ![Len(@)].pc = "login"],
                      NewFrame("login", "entry"))],
           NextFacts(t, 2, NewFrame("login", "entry"), [Top(t) EXCEPT !.pc = "login"])
    PROVE  Lone(t)'
<1>1. stack[t] \in Seq(Frame) /\ Len(stack[t]) = 1 /\ stack[t][1] = Top(t)
  BY DEF StackOK, Depth, Top
<1> DEFINE g == [stack[t][1] EXCEPT !.pc = "login"]
           n == NewFrame("login", "entry")
           q == [stack[t] EXCEPT ![1] = g]
<1>a. stack[t][1] \in Frame
  BY <1>1
<1>2. g \in Frame /\ n \in Frame
  BY <1>a DEF Frame, AwaitPc, SyncPc, NewFrame
<1>3. q \in Seq(Frame) /\ Len(q) = 1 /\ q[1] = g
  BY <1>1, <1>2, ReplaceLast
<1>4. stack'[t] = Append(q, n)
  BY <1>1 DEF StackOK
<1> HIDE DEF g, n, q
<1>5. Len(Append(q, n)) = 2 /\ Append(q, n)[1] = g /\ Append(q, n)[2] = n
  BY SMTT(30), <1>2, <1>3, OneMore
<1>6. Depth(t)' = 2 /\ Top(t)' = n /\ stack'[t][1] = g
  BY <1>4, <1>5 DEF Depth, Top
<1> QED
  BY <1>1, <1>6, LoneFromFacts DEF g, n

\* A step that ends the login.
LEMMA PopLone ==
    ASSUME StackOK, NEW t \in Tasks, NEW tok \in Nat, Depth(t) = 2,
           stack' = [stack EXCEPT ![t] =
               Append(SubSeq(@, 1, Len(@) - 2),
                      [stack[t][Depth(t) - 1] EXCEPT !.pc = "open", !.tok = tok])],
           NextFacts(t, 1, [stack[t][1] EXCEPT !.pc = "open", !.tok = tok],
                     stack[t][1])
    PROVE  Lone(t)'
<1> DEFINE g == [stack[t][1] EXCEPT !.pc = "open", !.tok = tok]
           r == Append(SubSeq(stack[t], 1, Len(stack[t]) - 2), g)
<1>1. stack[t] \in Seq(Frame) /\ Len(stack[t]) = 2
  BY DEF StackOK, Depth
<1>a. stack[t][1] \in Frame
  BY <1>1
<1>2. g \in Frame
  BY <1>a DEF Frame, AwaitPc
<1>3. stack'[t] = r
  BY <1>1 DEF StackOK, Depth
<1>4. Len(r) = 1 /\ r[1] = g
  <2> HIDE DEF g
  <2> QED
    BY <1>1, <1>2, SwapTail
<1> HIDE DEF g, r
<1>5. Depth(t)' = 1 /\ Top(t)' = g
  BY <1>3, <1>4 DEF Depth, Top
<1> QED
  BY <1>5, LoneFromFacts, BelowIrrelevant DEF g

----------------------------------------------------------------------------
(* What a task finds when it takes a step *)

\* Types of what the task works on.
LocalTypes(t) ==
    LET s == Owner[t] IN
    /\ Top(t) \in Frame /\ loggedIn[s] \in BOOLEAN /\ token[s] \in Nat
    /\ retry[s] \in Flag /\ fileTime[s] \in Nat
    /\ file[Account[s]] \in FileState /\ clock[Account[s]] \in Nat
    /\ repeats[t] \in [Cause -> 0 .. RepeatCap]

\* The facts before a step, and in NextFacts those after it.
NowFacts(t) ==
    LET s == Owner[t] IN
    FactsHold(t, Depth(t), Top(t), stack[t][1], loggedIn[s], token[s], retry[s],
              fileTime[s], file[Account[s]], repeats[t], result[t], faults,
              restarts)

\* A task that takes a step has one or two activations.
LEMMA Found ==
    ASSUME LoneInv, NEW t \in Tasks, stack[t] # <<>>
    PROVE  /\ StackOK /\ Depth(t) \in {1, 2} /\ LocalTypes(t) /\ NowFacts(t)
           /\ Owner[t] \in Sessions /\ Account[Owner[t]] \in Files
<1>1. StackOK /\ DataOK
  BY DEF LoneInv, IInv
<1>2. Owner[t] \in Sessions /\ Account[Owner[t]] \in Files
  BY <1>1, OwnerFile
<1>3. Top(t) \in Frame
  BY <1>1, TopFrame
<1>4. LocalTypes(t)
  BY <1>1, <1>2, <1>3 DEF LocalTypes, DataOK
<1>5. NowFacts(t)
  BY DEF LoneInv, Lone, NowFacts, FactsHold, File
<1>6. Depth(t) \in Nat \ {0}
  BY <1>1 DEF StackOK, Depth
<1>7. Depth(t) <= 2
  BY <1>5 DEF NowFacts, FactsHold, NestFacts
<1> QED
  BY <1>1, <1>2, <1>4, <1>5, <1>6, <1>7

\* A repetition is counted for its cause.
LEMMA CountedView ==
    ASSUME LoneInv, NEW t \in Tasks, stack[t] # <<>>, NEW c \in Cause,
           Top(t).ep # "login", repeats' = Counted(t, c)
    PROVE  /\ repeats'[t][c] = IF repeats[t][c] < RepeatCap THEN repeats[t][c] + 1
                               ELSE repeats[t][c]
           /\ repeats'[t][c] > 0
           /\ \A e \in Cause \ {c} : repeats'[t][e] = repeats[t][e]
<1>1. repeats \in [Tasks -> [Cause -> 0 .. RepeatCap]] /\ RepeatCap = 2
  BY DEF LoneInv, IInv, DataOK, RepeatCap
<1>2. repeats' =
          [repeats EXCEPT ![t][c] = IF @ < RepeatCap THEN @ + 1 ELSE @]
  BY DEF Counted
<1> QED
  BY <1>1, <1>2

----------------------------------------------------------------------------
(* The steps of a task keep the facts about it *)

USE DEF Resumes, Runs, At

\* A token about to expire starts a repetition that is counted.
LEMMA CheckExpirationLone ==
    ASSUME LoneInv, NEW t \in Tasks, CheckExpiration(t)
    PROVE  Lone(t)'
<1> USE DEF LocalTypes, NowFacts, NextFacts, FactsHold, NestFacts, Purpose,
        FileFacts, RecoveryFacts, RepeatFacts, Other, AuthPc, RequestPc, Retried
<1>0. /\ stack[t] # <<>> /\ StackOK /\ Depth(t) \in {1, 2} /\ LocalTypes(t)
      /\ NowFacts(t)
  BY Found DEF CheckExpiration
<1>1. CASE Goto(t, "check") /\ UNCHANGED repeats
  <2> DEFINE f == [Top(t) EXCEPT !.pc = "check"]
  <2>1. f \in Frame /\ f.ep = Top(t).ep /\ f.pc = "check" /\ f.why = Top(t).why
    BY <1>0 DEF Frame, SyncPc
  <2>2. Put(t, f)
    BY <1>1 DEF Goto
  <2> HIDE DEF f
  <2>3. NextFacts(t, Depth(t), f, stack[t][1])
    BY <1>0, <1>1, <2>1 DEF CheckExpiration, connVars, fileVars, boundVars
  <2> QED
    BY <1>0, <2>1, <2>2, <2>3, PutLone
<1>2. CASE /\ token[Owner[t]] \in expired
           /\ Put(t, [Top(t) EXCEPT !.pc = "restart", !.why = "expired"])
           /\ repeats' = Counted(t, "expired")
  <2> DEFINE f == [Top(t) EXCEPT !.pc = "restart", !.why = "expired"]
  <2>1. f \in Frame /\ f.ep = Top(t).ep /\ f.pc = "restart" /\ f.why = "expired"
    BY <1>0 DEF Frame, SyncPc
  <2>2. Depth(t) = 1 /\ Top(t).ep # "login"
    BY <1>0, <1>2 DEF LoneInv
  <2>3. /\ repeats'[t]["expired"] = IF repeats[t]["expired"] < RepeatCap
                                    THEN repeats[t]["expired"] + 1
                                    ELSE repeats[t]["expired"]
        /\ repeats'[t]["expired"] > 0
        /\ \A e \in Cause \ {"expired"} : repeats'[t][e] = repeats[t][e]
    BY <1>0, <1>2, <2>2, CountedView DEF Cause
  <2>4. Put(t, f)
    BY <1>2
  <2> HIDE DEF f
  <2>5. NextFacts(t, Depth(t), f, stack[t][1])
    BY <1>0, <1>1, <2>1, <2>2, <2>3
    DEF CheckExpiration, connVars, fileVars, boundVars, Cause
  <2> QED
    BY <1>0, <2>1, <2>4, <2>5, PutLone
<1> QED
  BY <1>1, <1>2 DEF CheckExpiration

\* A session that must authenticate has a file, or no login.
LEMMA CheckLoginLone ==
    ASSUME LoneInv, NEW t \in Tasks, CheckLogin(t)
    PROVE  Lone(t)'
<1> USE DEF LocalTypes, NowFacts, NextFacts, FactsHold, NestFacts, Purpose,
        FileFacts, RecoveryFacts, RepeatFacts, Other, AuthPc, RequestPc, Retried
<1>0. /\ stack[t] # <<>> /\ StackOK /\ Depth(t) \in {1, 2} /\ LocalTypes(t)
      /\ NowFacts(t)
  BY Found DEF CheckLogin
<1>1. CASE ~(Top(t).ep = "api" /\ MustAuthenticate(Owner[t])) /\ Goto(t, "header")
  <2> DEFINE f == [Top(t) EXCEPT !.pc = "header"]
  <2>1. f \in Frame /\ f.ep = Top(t).ep /\ f.pc = "header" /\ f.why = Top(t).why
    BY <1>0 DEF Frame, SyncPc
  <2>2. Put(t, f)
    BY <1>1 DEF Goto
  <2> HIDE DEF f
  <2>3. NextFacts(t, Depth(t), f, stack[t][1])
    BY <1>0, <1>1, <2>1 DEF CheckLogin, MustAuthenticate, connVars, fileVars,
       histVars, boundVars
  <2> QED
    BY <1>0, <2>1, <2>2, <2>3, PutLone
<1>2. CASE /\ Top(t).ep = "api" /\ MustAuthenticate(Owner[t])
           /\ Put(t, [Top(t) EXCEPT !.pc = "auth", !.why = "check"])
  <2> DEFINE f == [Top(t) EXCEPT !.pc = "auth", !.why = "check"]
  <2>1. f \in Frame /\ f.ep = Top(t).ep /\ f.pc = "auth" /\ f.why = "check"
    BY <1>0 DEF Frame, SyncPc
  <2>2. Put(t, f)
    BY <1>2
  <2> HIDE DEF f
  <2>3. NextFacts(t, Depth(t), f, stack[t][1])
    BY <1>0, <1>2, <2>1 DEF CheckLogin, MustAuthenticate, Exists, File, connVars,
       fileVars, histVars, boundVars
  <2> QED
    BY <1>0, <2>1, <2>2, <2>3, PutLone
<1> QED
  BY <1>1, <1>2 DEF CheckLogin

\* The header, the request and the end of a delay only move the activation.
LEMMA MoveLone ==
    ASSUME LoneInv, NEW t \in Tasks, GenerateHeader(t) \/ Send(t) \/ Backoff(t)
    PROVE  Lone(t)'
<1> USE DEF LocalTypes, NowFacts, NextFacts, FactsHold, NestFacts, Purpose,
        FileFacts, RecoveryFacts, RepeatFacts, Other, AuthPc, RequestPc, Retried
<1>0. /\ stack[t] # <<>> /\ StackOK /\ Depth(t) \in {1, 2} /\ LocalTypes(t)
      /\ NowFacts(t) /\ header \in Nat
  BY Found DEF GenerateHeader, Send, Backoff, LoneInv, IInv, DataOK
<1>1. CASE GenerateHeader(t)
  <2> DEFINE f == [Top(t) EXCEPT !.pc = "delay"]
  <2>1. f \in Frame /\ f.ep = Top(t).ep /\ f.pc = "delay" /\ f.why = Top(t).why
    BY <1>0 DEF Frame, AwaitPc
  <2>2. Put(t, f)
    BY <1>1 DEF GenerateHeader, Goto
  <2> HIDE DEF f
  <2>3. NextFacts(t, Depth(t), f, stack[t][1])
    BY <1>0, <1>1, <2>1 DEF GenerateHeader, connVars, fileVars, histVars, boundVars
  <2> QED
    BY <1>0, <2>1, <2>2, <2>3, PutLone
<1>2. CASE Send(t)
  <2> DEFINE f == [Top(t) EXCEPT !.pc = "sent", !.tok = header]
  <2>1. f \in Frame /\ f.ep = Top(t).ep /\ f.pc = "sent" /\ f.why = Top(t).why
    BY <1>0 DEF Frame, AwaitPc
  <2>2. Put(t, f)
    BY <1>2 DEF Send
  <2> HIDE DEF f
  <2>3. NextFacts(t, Depth(t), f, stack[t][1])
    BY <1>0, <1>2, <2>1 DEF Send, connVars, fileVars, histVars, boundVars
  <2> QED
    BY <1>0, <2>1, <2>2, <2>3, PutLone
<1>3. CASE Backoff(t)
  <2> DEFINE f == [Top(t) EXCEPT !.pc = "entry"]
  <2>1. f \in Frame /\ f.ep = Top(t).ep /\ f.pc = "entry" /\ f.why = Top(t).why
    BY <1>0 DEF Frame, SyncPc
  <2>2. Put(t, f)
    BY <1>3 DEF Backoff, Goto
  <2> HIDE DEF f
  <2>3. NextFacts(t, Depth(t), f, stack[t][1])
    BY <1>0, <1>3, <2>1 DEF Backoff, connVars, fileVars, histVars, boundVars
  <2> QED
    BY <1>0, <2>1, <2>2, <2>3, PutLone
<1> QED
  BY <1>1, <1>2, <1>3

\* A restart of the authentication forgets the login and the file.
LEMMA RestartLone ==
    ASSUME LoneInv, NEW t \in Tasks, Restart(t)
    PROVE  Lone(t)'
<1> USE DEF LocalTypes, NowFacts, NextFacts, FactsHold, NestFacts, Purpose,
        FileFacts, RecoveryFacts, RepeatFacts, Other, AuthPc, RequestPc, Retried
<1>0. /\ stack[t] # <<>> /\ StackOK /\ Depth(t) \in {1, 2} /\ LocalTypes(t)
      /\ NowFacts(t) /\ Owner[t] \in Sessions /\ Account[Owner[t]] \in Files
  BY Found DEF Restart
<1> DEFINE f == [Top(t) EXCEPT !.pc = "auth"]
<1>1. f \in Frame /\ f.ep = Top(t).ep /\ f.pc = "auth" /\ f.why = Top(t).why
  BY <1>0 DEF Frame, SyncPc
<1>2. Put(t, f)
  BY DEF Restart, Goto
<1> HIDE DEF f
<1>3. /\ loggedIn'[Owner[t]] = FALSE /\ token'[Owner[t]] = 0
      /\ file'[Account[Owner[t]]] = NoFile
      /\ retry' = retry /\ repeats' = repeats /\ result' = result
      /\ faults' = faults /\ restarts' = restarts
  BY <1>0 DEF Restart, LoneInv, IInv, DataOK, histVars, boundVars
<1>4. NextFacts(t, Depth(t), f, stack[t][1])
  BY <1>0, <1>1, <1>3 DEF Restart
<1> QED
  BY <1>0, <1>1, <1>2, <1>4, PutLone

\* Without a cached login the cloud is asked for one.
LEMMA AuthenticateLone ==
    ASSUME LoneInv, NEW t \in Tasks, Authenticate(t)
    PROVE  Lone(t)'
<1> USE DEF LocalTypes, NowFacts, NextFacts, FactsHold, NestFacts, Purpose,
        FileFacts, RecoveryFacts, RepeatFacts, Other, AuthPc, RequestPc, Retried
<1>0. /\ stack[t] # <<>> /\ StackOK /\ Depth(t) \in {1, 2} /\ LocalTypes(t)
      /\ NowFacts(t) /\ Owner[t] \in Sessions /\ Account[Owner[t]] \in Files
  BY Found DEF Authenticate
<1>1. CASE Exists(Owner[t]) /\ Goto(t, "load") /\ UNCHANGED retry
  <2> DEFINE f == [Top(t) EXCEPT !.pc = "load"]
  <2>1. f \in Frame /\ f.ep = Top(t).ep /\ f.pc = "load" /\ f.why = Top(t).why
    BY <1>0 DEF Frame, AwaitPc
  <2>2. Put(t, f)
    BY <1>1 DEF Goto
  <2> HIDE DEF f
  <2>3. NextFacts(t, Depth(t), f, stack[t][1])
    BY <1>0, <1>1, <2>1 DEF Authenticate, Exists, File, fileVars, histVars, boundVars
  <2> QED
    BY <1>0, <2>1, <2>2, <2>3, PutLone
<1>2. CASE /\ ~Exists(Owner[t])
           /\ retry' = [retry EXCEPT ![Owner[t]] = "yes"]
           /\ stack' = [stack EXCEPT ![t] =
                  Append([@ EXCEPT ![Len(@)].pc = "login"],
                         NewFrame("login", "entry"))]
  <2> DEFINE f == NewFrame("login", "entry")
             b == [Top(t) EXCEPT !.pc = "login"]
  <2>1. f.ep = "login" /\ f.pc = "entry" /\ f.why = "none"
    BY DEF NewFrame
  <2>2. b.ep = Top(t).ep /\ b.pc = "login" /\ b.why = Top(t).why
    BY <1>0 DEF Frame
  <2>3. Depth(t) = 1 /\ file[Account[Owner[t]]] = NoFile /\ Top(t).pc = "auth"
    BY <1>0, <1>2 DEF Authenticate, Exists, File
  <2>4. retry'[Owner[t]] = "yes"
    BY <1>0, <1>2 DEF LoneInv, IInv, DataOK
  <2> HIDE DEF f, b
  <2>5. NextFacts(t, 2, f, b)
    BY <1>0, <2>1, <2>2, <2>3, <2>4 DEF Authenticate, fileVars, histVars, boundVars
  <2> QED
    BY <1>0, <1>2, <2>3, <2>5, PushLone DEF f, b
<1> QED
  BY <1>1, <1>2 DEF Authenticate

\* With nobody else to remove the file its content is read.
LEMMA ReadFileLone ==
    ASSUME LoneInv, NEW t \in Tasks, ReadFile(t)
    PROVE  Lone(t)'
<1> USE DEF LocalTypes, NowFacts, NextFacts, FactsHold, NestFacts, Purpose,
        FileFacts, RecoveryFacts, RepeatFacts, Other, AuthPc, RequestPc, Retried
<1>0. /\ stack[t] # <<>> /\ StackOK /\ Depth(t) \in {1, 2} /\ LocalTypes(t)
      /\ NowFacts(t)
  BY Found DEF ReadFile
<1> DEFINE f == [Top(t) EXCEPT !.pc = "apply", !.tok = file[Account[Owner[t]]].tok]
<1>1. /\ f \in Frame /\ f.ep = Top(t).ep /\ f.pc = "apply" /\ f.why = Top(t).why
      /\ f.tok = file[Account[Owner[t]]].tok
  BY <1>0 DEF Frame, AwaitPc, FileState
<1>2. Put(t, f)
  BY DEF ReadFile, File
<1> HIDE DEF f
<1>3. NextFacts(t, Depth(t), f, stack[t][1])
  BY <1>0, <1>1 DEF ReadFile, connVars, fileVars, histVars, boundVars
<1> QED
  BY <1>0, <1>1, <1>2, <1>3, PutLone
\* Login data with a token lets the caller go on: the cached file is there and
\* complete, and a new login has set the session's login state.
LEMMA UseLoginLone ==
    ASSUME LoneInv, NEW t \in Tasks, UseCachedLogin(t) \/ UseNewLogin(t)
    PROVE  Lone(t)'
<1> USE DEF LocalTypes, NowFacts, NextFacts, FactsHold, NestFacts, Purpose,
        FileFacts, RecoveryFacts, RepeatFacts, Other, AuthPc, RequestPc, Retried
<1>0. /\ stack[t] # <<>> /\ StackOK /\ Depth(t) \in {1, 2} /\ LocalTypes(t)
      /\ NowFacts(t) /\ Owner[t] \in Sessions /\ Account[Owner[t]] \in Files
      /\ stack \in [Tasks -> Seq(Frame)]
      /\ loggedIn \in [Sessions -> BOOLEAN] /\ token \in [Sessions -> Nat]
      /\ retry \in [Sessions -> Flag] /\ fileTime \in [Sessions -> Nat]
      /\ result \in [Tasks -> {"none", "ok", "error"}]
  BY Found DEF UseCachedLogin, UseNewLogin, LoneInv, IInv, DataOK, StackOK
<1> DEFINE s == Owner[t]
           in == loggedIn[s] /\ Top(t).tok # 0
           next == NextPc(Top(t), in)
<1>1. Depth(t) = 1 /\ Top(t).pc \in {"apply", "done"}
  BY <1>0 DEF UseCachedLogin, UseNewLogin
<1>2. CASE UseCachedLogin(t) /\ ~Exists(s)
  BY <1>0, <1>1, <1>2 DEF UseCachedLogin, Exists, File
<1>3. CASE UseLogin(t) /\ (UseCachedLogin(t) => Exists(s))
  <2>1. /\ token'[s] = Top(t).tok /\ loggedIn'[s] = in
        /\ retry'[s] = ClearedFlag(s)
        /\ file' = file /\ repeats' = repeats /\ faults' = faults
        /\ restarts' = restarts
    BY <1>0, <1>3 DEF UseLogin, fileVars, boundVars
  <2>2. fileTime'[s] = file[Account[s]].ver \/ fileTime'[s] = fileTime[s]
    BY <1>0, <1>3 DEF UseCachedLogin, UseNewLogin, Exists, File, UseLogin
  <2>3. file[Account[s]] # NoFile /\ file[Account[s]].tok = Top(t).tok
    BY <1>0, <1>1
  <2>4. CASE next = "raise" /\ Raise(t)
    <3>1. Top(t).ep \in {"api", "auth"} /\ Top(t).why \in {"none", "expired", "check", "kicked"}
      BY <1>0, <1>1 DEF Frame
    <3>2. Top(t).ep = "api" /\ Top(t).why = "kicked" /\ ~in
      BY <1>0, <1>1, <2>4, <3>1 DEF NextPc
    <3>3. Top(t).pc = "done"
      BY <1>0, <1>1, <3>2
    <3> QED
      BY <1>0, <1>1, <3>2, <3>3
  <2>5. CASE next = "return" /\ Return(t)
    <3>1. stack' = [stack EXCEPT ![t] = <<>>] /\ result'[t] = "ok"
      BY <1>0, <2>5 DEF Return
    <3>2. NextFacts(t, 0, Top(t), Top(t))
      BY <1>0, <1>1, <2>1, <2>2, <2>3, <3>1 DEF ClearedFlag, Flag
    <3> QED
      BY <1>0, <3>1, <3>2, DropLone
  <2>6. CASE next \notin {"raise", "return"} /\ Proceed(t, next) /\ UNCHANGED result
    <3> DEFINE f == NewFrame(Top(t).ep, next)
    <3>1. /\ Top(t).ep = "api" /\ Top(t).why # "none"
          /\ next \in {"entry", "check", "header"}
          /\ Top(t).why = "check" <=> next = "header"
          /\ Top(t).why = "kicked" <=> next = "entry"
      BY <1>0, <1>1, <2>6 DEF NextPc, Frame
    <3>2. f \in Frame /\ f.ep = "api" /\ f.pc = next /\ f.why = "none"
      BY <3>1 DEF NewFrame, Frame, SyncPc
    <3>3. Put(t, f)
      BY <2>6 DEF Proceed
    <3> HIDE DEF f, next, in
    <3>4. result'[t] = result[t]
      BY <2>6
    <3>5. /\ retry'[Owner[t]] = "no" \/ retry'[Owner[t]] = retry[Owner[t]]
          /\ retry[Owner[t]] = "no" => retry'[Owner[t]] = "no"
          /\ retry[Owner[t]] # "yes" => retry'[Owner[t]] = retry[Owner[t]]
          /\ "kicked" \in Cause \ {"expired"} /\ Retried \subseteq Cause
      BY <2>1 DEF ClearedFlag, Cause
    <3>6. NestFacts(Depth(t), f, stack[t][1], token'[Owner[t]],
                    retry'[Owner[t]], file'[Account[Owner[t]]], repeats'[t])
      BY <1>0, <1>1, <2>1, <3>1, <3>2
    <3>7. FileFacts(Depth(t), f, loggedIn'[Owner[t]], token'[Owner[t]],
                    fileTime'[Owner[t]], file'[Account[Owner[t]]], restarts')
      BY <1>0, <1>1, <2>1, <2>2, <2>3, <3>1, <3>2
    <3>8. RecoveryFacts(Depth(t), f, retry'[Owner[t]],
                        file'[Account[Owner[t]]], result'[t], faults')
      BY <1>0, <1>1, <2>1, <3>2, <3>4, <3>5
    <3>9. RepeatFacts(Depth(t), f, loggedIn'[Owner[t]], retry'[Owner[t]],
                      file'[Account[Owner[t]]], repeats'[t])
      BY <1>0, <1>1, <2>1, <2>3, <3>1, <3>2, <3>5
    <3>10. NextFacts(t, Depth(t), f, stack[t][1])
      BY <3>6, <3>7, <3>8, <3>9
    <3> QED
      BY <1>0, <3>2, <3>3, <3>10, PutLone
  <2> QED
    BY <1>3, <2>4, <2>5, <2>6 DEF UseLogin
<1> QED
  BY <1>2, <1>3 DEF UseCachedLogin, UseNewLogin

\* Opening the file truncates it while the new token is still to be written.
LEMMA OpenFileLone ==
    ASSUME LoneInv, NEW t \in Tasks, OpenFile(t)
    PROVE  Lone(t)'
<1> USE DEF LocalTypes, NowFacts, NextFacts, FactsHold, NestFacts, Purpose,
        FileFacts, RecoveryFacts, RepeatFacts, Other, AuthPc, RequestPc, Retried
<1>0. /\ stack[t] # <<>> /\ StackOK /\ Depth(t) \in {1, 2} /\ LocalTypes(t)
      /\ NowFacts(t) /\ Owner[t] \in Sessions /\ Account[Owner[t]] \in Files
      /\ DataOK
  BY Found DEF OpenFile, LoneInv, IInv
<1> DEFINE a == Account[Owner[t]]
           now == clock[a] + 1
           ino == IF file[a] = NoFile THEN now ELSE file[a].ino
           f == [Top(t) EXCEPT !.pc = "write", !.ino = ino]
<1>1. ino \in Nat /\ now \in Nat /\ now > 0
  BY <1>0 DEF FileState
<1>2. f \in Frame /\ f.ep = Top(t).ep /\ f.pc = "write" /\ f.why = Top(t).why
      /\ f.ino = ino /\ f.tok = Top(t).tok
  BY <1>0, <1>1 DEF Frame, AwaitPc
<1>3. Put(t, f)
  BY DEF OpenFile
<1>4. file'[a] = [ino |-> ino, ver |-> now, tok |-> 0]
  BY <1>0 DEF OpenFile, DataOK
<1>5. file'[a].ino = ino /\ file'[a].ver = now /\ file'[a] # NoFile
  BY <1>1, <1>4 DEF NoFile
<1>6. /\ UNCHANGED connVars /\ UNCHANGED histVars /\ UNCHANGED boundVars
      /\ Depth(t) = 1 /\ Top(t).pc = "open"
  BY <1>0 DEF OpenFile
<1> HIDE DEF f, ino, now
<1>7. NextFacts(t, Depth(t), f, stack[t][1])
  BY <1>0, <1>1, <1>2, <1>5, <1>6 DEF connVars, histVars, boundVars
<1> QED
  BY <1>0, <1>2, <1>3, <1>7, PutLone

\* With nobody else to remove the file its time stamp is always there.
LEMMA StampFileLone ==
    ASSUME LoneInv, NEW t \in Tasks, StampFile(t)
    PROVE  Lone(t)'
<1> USE DEF LocalTypes, NowFacts, NextFacts, FactsHold, NestFacts, Purpose,
        FileFacts, RecoveryFacts, RepeatFacts, Other, AuthPc, RequestPc, Retried
<1>0. /\ stack[t] # <<>> /\ StackOK /\ Depth(t) \in {1, 2} /\ LocalTypes(t)
      /\ NowFacts(t) /\ Owner[t] \in Sessions /\ Account[Owner[t]] \in Files
      /\ DataOK
  BY Found DEF StampFile, LoneInv, IInv
<1> DEFINE f == [Top(t) EXCEPT !.pc = "close"]
<1>1. f \in Frame /\ f.ep = Top(t).ep /\ f.pc = "close" /\ f.why = Top(t).why
      /\ f.ino = Top(t).ino /\ f.tok = Top(t).tok
  BY <1>0 DEF Frame, AwaitPc
<1>2. Depth(t) = 1 /\ Top(t).pc = "write" /\ file[Account[Owner[t]]] # NoFile
  BY <1>0 DEF StampFile
<1>3. Put(t, f) /\ result' = result
  BY <1>2 DEF StampFile, Exists, File, Goto
<1> HIDE DEF f
<1>4. NextFacts(t, Depth(t), f, stack[t][1])
  BY <1>0, <1>1, <1>2, <1>3 DEF StampFile, fileVars, boundVars
<1> QED
  BY <1>0, <1>1, <1>3, <1>4, PutLone

\* Closing the file completes it.
LEMMA CloseFileLone ==
    ASSUME LoneInv, NEW t \in Tasks, CloseFile(t)
    PROVE  Lone(t)'
<1> USE DEF LocalTypes, NowFacts, NextFacts, FactsHold, NestFacts, Purpose,
        FileFacts, RecoveryFacts, RepeatFacts, Other, AuthPc, RequestPc, Retried
<1>0. /\ stack[t] # <<>> /\ StackOK /\ Depth(t) \in {1, 2} /\ LocalTypes(t)
      /\ NowFacts(t) /\ Owner[t] \in Sessions /\ Account[Owner[t]] \in Files
      /\ DataOK
  BY Found DEF CloseFile, LoneInv, IInv
<1> DEFINE f == [Top(t) EXCEPT !.pc = "done"]
           a == Account[Owner[t]]
<1>1. f \in Frame /\ f.ep = Top(t).ep /\ f.pc = "done" /\ f.why = Top(t).why
      /\ f.ino = Top(t).ino /\ f.tok = Top(t).tok
  BY <1>0 DEF Frame, AwaitPc
<1>2. Depth(t) = 1 /\ Top(t).pc = "close" /\ file[a] # NoFile
      /\ file[a].ino = Top(t).ino /\ file[a].ver \in Nat \ {0}
  BY <1>0 DEF CloseFile, FileState
<1>3. Put(t, f)
  BY DEF CloseFile, Goto
<1>4. PICK now \in {file[a].ver, clock[a] + 1} :
          file' = [file EXCEPT ![a].ver = now, ![a].tok = Top(t).tok]
  BY <1>2 DEF CloseFile
<1>5. /\ file'[a].ino = file[a].ino /\ file'[a].ver = now
      /\ file'[a].tok = Top(t).tok /\ now \in Nat \ {0}
  BY SMTT(30), <1>0, <1>2, <1>4 DEF DataOK, FileState
<1>6. file'[a] # NoFile
  BY <1>5 DEF NoFile
<1> HIDE DEF f
<1>7. NextFacts(t, Depth(t), f, stack[t][1])
  BY <1>0, <1>1, <1>2, <1>5, <1>6 DEF CloseFile, connVars, histVars, boundVars
<1> QED
  BY <1>0, <1>1, <1>3, <1>7, PutLone

\* An answer with data ends the call and clears the flag.
LEMMA AnswerOkLone ==
    ASSUME LoneInv, NEW t \in Tasks, AnswerOk(t)
    PROVE  Lone(t)'
<1> USE DEF LocalTypes, NowFacts, NextFacts, FactsHold, NestFacts, Purpose,
        FileFacts, RecoveryFacts, RepeatFacts, Other, AuthPc, RequestPc, Retried
<1>0. /\ stack[t] # <<>> /\ StackOK /\ Depth(t) \in {1, 2} /\ LocalTypes(t)
      /\ NowFacts(t) /\ Owner[t] \in Sessions /\ Account[Owner[t]] \in Files
      /\ DataOK
  BY Found DEF AnswerOk, LoneInv, IInv
<1>1. Depth(t) = 1 /\ Top(t).ep = "api"
  BY <1>0 DEF AnswerOk
<1>2. /\ stack' = [stack EXCEPT ![t] = <<>>] /\ result'[t] = "ok"
      /\ retry'[Owner[t]] = "no"
  BY <1>0 DEF AnswerOk, Return, DataOK
<1>3. NextFacts(t, 0, Top(t), Top(t))
  BY <1>0, <1>1, <1>2 DEF AnswerOk, fileVars, boundVars
<1> QED
  BY <1>0, <1>2, <1>3, DropLone

\* A new token sets the session up for saving it.
LEMMA AnswerLoginLone ==
    ASSUME LoneInv, NEW t \in Tasks, AnswerLogin(t)
    PROVE  Lone(t)'
<1> USE DEF LocalTypes, NowFacts, NextFacts, FactsHold, NestFacts, Purpose,
        FileFacts, RecoveryFacts, RepeatFacts, Other, AuthPc, RequestPc, Retried
<1>0. /\ stack[t] # <<>> /\ StackOK /\ Depth(t) \in {1, 2} /\ LocalTypes(t)
      /\ NowFacts(t) /\ Owner[t] \in Sessions /\ Account[Owner[t]] \in Files
      /\ DataOK
  BY Found DEF AnswerLogin, LoneInv, IInv
<1>1. Depth(t) = 2 /\ Len(issued) \in Nat
  BY <1>0 DEF AnswerLogin, DataOK
<1>a. stack[t][1] \in Frame
  BY <1>0, <1>1 DEF StackOK, Depth
<1> DEFINE tok == Len(issued) + 1
           f == [stack[t][1] EXCEPT !.pc = "open", !.tok = tok]
<1>2. tok \in Nat /\ tok # 0
  BY <1>1
<1>3. /\ f.ep = stack[t][1].ep /\ f.pc = "open" /\ f.why = stack[t][1].why
      /\ f.tok = tok
  BY <1>a DEF Frame
<1>4. /\ loggedIn'[Owner[t]] = TRUE /\ retry'[Owner[t]] = "no"
      /\ UNCHANGED <<token, fileTime, file, repeats, result, faults, restarts>>
  BY <1>0 DEF AnswerLogin, DataOK, fileVars, histVars, boundVars
<1>5. stack' = [stack EXCEPT ![t] =
          Append(SubSeq(@, 1, Len(@) - 2),
                 [stack[t][Depth(t) - 1] EXCEPT !.pc = "open", !.tok = tok])]
  BY DEF AnswerLogin
<1> HIDE DEF f, tok
<1>6. NextFacts(t, 1, f, stack[t][1])
  BY <1>0, <1>1, <1>2, <1>3, <1>4
<1> QED
  BY <1>0, <1>1, <1>2, <1>5, <1>6, PopLone DEF f

\* A dropped token is replaced: the flag is clear, or the cloud gave an unhealthy answer.
LEMMA RejectedLone ==
    ASSUME LoneInv, NEW t \in Tasks, AnswerKicked(t) \/ AnswerForbidden(t)
    PROVE  Lone(t)'
<1> USE DEF LocalTypes, NowFacts, NextFacts, FactsHold, NestFacts, Purpose,
        FileFacts, RecoveryFacts, RepeatFacts, Other, AuthPc, RequestPc, Retried
<1>0. /\ stack[t] # <<>> /\ StackOK /\ Depth(t) \in {1, 2} /\ LocalTypes(t)
      /\ NowFacts(t) /\ Owner[t] \in Sessions /\ Account[Owner[t]] \in Files
      /\ DataOK
  BY Found DEF AnswerKicked, AnswerForbidden, Fault, LoneInv, IInv
<1>1. Rejected(t) /\ disturbed \in [Tasks -> BOOLEAN] /\ Top(t).pc = "sent"
      /\ faults \in Nat /\ restarts' = restarts
      /\ ((faults' = faults /\ Top(t).ep = "api") \/ faults' # 0)
  BY <1>0 DEF AnswerKicked, AnswerForbidden, Fault, DataOK, Rejected
<1>2. UNCHANGED <<connVars, fileVars>>
  BY <1>1 DEF Rejected
<1>3. CASE retry[Owner[t]] = "no"
  <2> DEFINE f == [Top(t) EXCEPT !.pc = "restart", !.why = "kicked"]
  <2>1. f \in Frame /\ f.ep = Top(t).ep /\ f.pc = "restart" /\ f.why = "kicked"
    BY <1>0 DEF Frame, SyncPc
  <2>2. Depth(t) = 1 /\ Top(t).ep # "login"
    BY <1>0, <1>3
  <2>3. /\ repeats'[t]["kicked"] > 0
        /\ \A e \in Cause \ {"kicked"} : repeats'[t][e] = repeats[t][e]
    BY <1>0, <1>1, <1>3, <2>2, CountedView DEF Cause, Rejected
  <2>4. Put(t, f) /\ UNCHANGED result
    BY <1>1, <1>3 DEF Rejected
  <2> HIDE DEF f
  <2>5. NextFacts(t, Depth(t), f, stack[t][1])
    BY <1>0, <1>1, <1>2, <1>3, <2>1, <2>2, <2>3, <2>4
    DEF connVars, fileVars, Cause
  <2> QED
    BY <1>0, <2>1, <2>4, <2>5, PutLone
<1>4. CASE retry[Owner[t]] # "no"
  <2>1. /\ stack' = [stack EXCEPT ![t] = <<>>] /\ repeats' = repeats
        /\ faults' # 0
    BY <1>0, <1>1, <1>4 DEF Rejected, Raise
  <2>2. NextFacts(t, 0, Top(t), Top(t))
    BY <1>0, <1>1, <1>2, <1>4, <2>1 DEF connVars, fileVars
  <2> QED
    BY <1>0, <2>1, <2>2, DropLone
<1> QED
  BY <1>3, <1>4

\* An unhealthy answer is repeated once for its kind.
LEMMA RepeatLone ==
    ASSUME LoneInv, NEW t \in Tasks, AnswerLimit(t) \/ AnswerGateway(t) \/ AnswerBusy(t)
    PROVE  Lone(t)'
<1> USE DEF LocalTypes, NowFacts, NextFacts, FactsHold, NestFacts, Purpose,
        FileFacts, RecoveryFacts, RepeatFacts, Other, AuthPc, RequestPc, Retried
<1>0. /\ stack[t] # <<>> /\ StackOK /\ Depth(t) \in {1, 2} /\ LocalTypes(t)
      /\ NowFacts(t) /\ Owner[t] \in Sessions /\ Account[Owner[t]] \in Files
      /\ DataOK
  BY Found DEF AnswerLimit, AnswerGateway, AnswerBusy, Fault, LoneInv, IInv
<1>1. PICK c \in Retried :
          /\ RepeatOrRaise(t, c) /\ faults' # 0 /\ Top(t).pc = "sent"
          /\ \/ loggedIn' = loggedIn
             \/ loggedIn' = [loggedIn EXCEPT ![Owner[t]] = TRUE]
  BY <1>0 DEF AnswerLimit, AnswerGateway, AnswerBusy, Fault, Retried, DataOK
<1>2. /\ loggedIn'[Owner[t]] = loggedIn[Owner[t]] \/ loggedIn'[Owner[t]]
      /\ UNCHANGED <<token, fileTime, file, restarts>> /\ faults' # 0
      /\ c \in Cause /\ c # "expired" /\ c # "kicked" /\ c # "login"
      /\ Retried \subseteq Cause
  BY <1>0, <1>1 DEF RepeatOrRaise, fileVars, DataOK, Cause
<1>3. CASE retry[Owner[t]] \notin {"yes", c}
  <2> DEFINE pc == IF c = "limit" THEN "entry" ELSE "backoff"
             f == NewFrame(Top(t).ep, pc)
  <2>1. f \in Frame /\ f.ep = Top(t).ep /\ f.pc = pc /\ f.why = "none"
        /\ pc \in {"entry", "backoff"}
    BY <1>0 DEF Frame, SyncPc, AwaitPc, NewFrame
  <2>2. Depth(t) = 1 /\ Top(t).ep # "login" /\ Top(t).ep = "api"
    BY <1>0, <1>1, <1>3 DEF Frame
  <2>3. /\ repeats'[t][c] = IF repeats[t][c] < RepeatCap THEN repeats[t][c] + 1
                             ELSE repeats[t][c]
        /\ repeats'[t][c] > 0
        /\ \A e \in Cause \ {c} : repeats'[t][e] = repeats[t][e]
    BY <1>0, <1>1, <1>2, <1>3, <2>2, CountedView DEF RepeatOrRaise
  <2>4. Put(t, f) /\ UNCHANGED result /\ retry'[Owner[t]] = c
    BY <1>0, <1>1, <1>3 DEF RepeatOrRaise, Proceed, DataOK
  <2> HIDE DEF f, pc
  <2>5. NestFacts(Depth(t), f, stack[t][1], token'[Owner[t]], retry'[Owner[t]],
                  file'[Account[Owner[t]]], repeats'[t])
    BY <1>0, <1>1, <1>2, <2>1, <2>2, <2>3, <2>4 DEF Cause
  <2>6. FileFacts(Depth(t), f, loggedIn'[Owner[t]], token'[Owner[t]],
                  fileTime'[Owner[t]], file'[Account[Owner[t]]], restarts')
    BY <1>0, <1>1, <1>2, <2>1, <2>2, <2>4
  <2>7. RecoveryFacts(Depth(t), f, retry'[Owner[t]], file'[Account[Owner[t]]],
                      result'[t], faults')
    BY <1>0, <1>1, <1>2, <2>1, <2>2, <2>4
  <2>8. RepeatFacts(Depth(t), f, loggedIn'[Owner[t]], retry'[Owner[t]],
                    file'[Account[Owner[t]]], repeats'[t])
    BY <1>0, <1>1, <1>2, <1>3, <2>1, <2>2, <2>3, <2>4 DEF Cause
  <2>9. NextFacts(t, Depth(t), f, stack[t][1])
    BY <2>5, <2>6, <2>7, <2>8
  <2> QED
    BY <1>0, <2>1, <2>4, <2>9, PutLone
<1>4. CASE retry[Owner[t]] \in {"yes", c}
  <2>1. /\ stack' = [stack EXCEPT ![t] = <<>>] /\ repeats' = repeats
        /\ retry' = retry
    BY <1>0, <1>1, <1>4 DEF RepeatOrRaise, Raise
  <2>2. NextFacts(t, 0, Top(t), Top(t))
    BY <1>0, <1>1, <1>2, <1>4, <2>1
  <2> QED
    BY <1>0, <2>1, <2>2, DropLone
<1> QED
  BY <1>3, <1>4

\* Any other failure ends the call.
LEMMA AnswerErrorLone ==
    ASSUME LoneInv, NEW t \in Tasks, AnswerError(t)
    PROVE  Lone(t)'
<1> USE DEF LocalTypes, NowFacts, NextFacts, FactsHold, NestFacts, Purpose,
        FileFacts, RecoveryFacts, RepeatFacts, Other, AuthPc, RequestPc, Retried
<1>0. /\ stack[t] # <<>> /\ StackOK /\ Depth(t) \in {1, 2} /\ LocalTypes(t)
      /\ NowFacts(t) /\ Owner[t] \in Sessions /\ Account[Owner[t]] \in Files
      /\ DataOK
  BY Found DEF AnswerError, Fault, LoneInv, IInv
<1>1. /\ stack' = [stack EXCEPT ![t] = <<>>] /\ faults' # 0 /\ faults \in Nat
      /\ UNCHANGED <<token, retry, fileTime, file, repeats, restarts>>
  BY <1>0 DEF AnswerError, Raise, Fault, DataOK, fileVars
<1>2. Top(t).pc = "sent"
  BY DEF AnswerError, Fault
<1>3. NextFacts(t, 0, Top(t), Top(t))
  BY <1>0, <1>1, <1>2
<1> QED
  BY <1>0, <1>1, <1>3, DropLone

\* A call starts with nothing repeated.
LEMMA CallLone ==
    ASSUME LoneInv, NEW t \in Tasks, Call(t)
    PROVE  Lone(t)'
<1> USE DEF LocalTypes, NowFacts, NextFacts, FactsHold, NestFacts, Purpose,
        FileFacts, RecoveryFacts, RepeatFacts, Other, AuthPc, RequestPc, Retried
<1>0. StackOK /\ DataOK /\ Lone(t) /\ Depth(t) = 0
  BY DEF LoneInv, IInv, Call, Depth
<1>1. PICK use : stack' = [stack EXCEPT ![t] = <<FirstFrame(use)>>]
          /\ use \in {"request", "setup", "dialog"}
  BY SessionAssumption DEF Call
<1> DEFINE f == FirstFrame(use)
<1>2. /\ f \in Frame /\ f.why = "none"
      /\ \/ f.ep = "api" /\ f.pc = "entry"
         \/ f.ep = "auth" /\ f.pc \in {"auth", "restart"}
  BY <1>1 DEF FirstFrame, NewFrame, Frame, SyncPc
<1>3. repeats'[t] = [c \in Cause |-> 0] /\ result'[t] = "none"
  BY <1>0 DEF Call, DataOK
<1>4. \A c \in Cause : repeats'[t][c] = 0
  BY <1>3
<1>5. /\ "login" \in Cause /\ "kicked" \in Cause /\ "expired" \in Cause
      /\ Retried \subseteq Cause
  BY DEF Cause
<1> HIDE DEF f
<1>6. UNCHANGED <<connVars, fileVars>> /\ faults' = faults /\ restarts' = restarts
  BY DEF Call
<1>7. /\ token' = token /\ retry' = retry /\ fileTime' = fileTime
      /\ file' = file /\ loggedIn' = loggedIn
  BY <1>6 DEF connVars, fileVars
<1>8. FactsHold(t, 0, Top(t), stack[t][1], loggedIn[Owner[t]], token[Owner[t]],
                retry[Owner[t]], fileTime[Owner[t]], file[Account[Owner[t]]],
                repeats[t], result[t], faults, restarts)
  BY <1>0 DEF Lone, File
<1>9. NestFacts(1, f, f, token'[Owner[t]], retry'[Owner[t]],
                file'[Account[Owner[t]]], repeats'[t])
  BY <1>2, <1>4, <1>5
<1>10. FileFacts(1, f, loggedIn'[Owner[t]], token'[Owner[t]],
                 fileTime'[Owner[t]], file'[Account[Owner[t]]], restarts')
  BY <1>2, <1>6, <1>7, <1>8
<1>11. RecoveryFacts(1, f, retry'[Owner[t]], file'[Account[Owner[t]]],
                     result'[t], faults')
  BY <1>2, <1>3, <1>6, <1>7, <1>8
<1>12. RepeatFacts(1, f, loggedIn'[Owner[t]], retry'[Owner[t]],
                   file'[Account[Owner[t]]], repeats'[t])
  BY <1>2, <1>4, <1>5
<1>13. NextFacts(t, 1, f, f)
  BY <1>9, <1>10, <1>11, <1>12
<1> QED
  BY <1>0, <1>1, <1>2, <1>13, FirstLone DEF f

----------------------------------------------------------------------------
(* The steps of the others, and of the environment *)

\* A task works on its own stack, its own counters, its session and the file
\* of its account.
LEMMA OwnVariables ==
    ASSUME LoneInv, NEW t \in Tasks, Call(t) \/ Code(t) \/ Answer(t)
    PROVE  /\ \A u \in Tasks \ {t} : /\ stack'[u] = stack[u]
                                   /\ repeats'[u] = repeats[u]
                                   /\ result'[u] = result[u]
           /\ \A s \in Sessions \ {Owner[t]} :
                 /\ loggedIn'[s] = loggedIn[s] /\ token'[s] = token[s]
                 /\ retry'[s] = retry[s] /\ fileTime'[s] = fileTime[s]
           /\ \A a \in Files \ {Account[Owner[t]]} : file'[a] = file[a]
           /\ faults' = 0 => faults = 0
           /\ restarts' = restarts
<1> USE DEF connVars, fileVars, histVars, boundVars
<1>0. /\ stack \in [Tasks -> Seq(Frame)]
      /\ repeats \in [Tasks -> [Cause -> 0 .. RepeatCap]]
      /\ result \in [Tasks -> {"none", "ok", "error"}]
      /\ loggedIn \in [Sessions -> BOOLEAN] /\ token \in [Sessions -> Nat]
      /\ retry \in [Sessions -> Flag] /\ fileTime \in [Sessions -> Nat]
      /\ file \in [Files -> FileState] /\ faults \in Nat
  BY DEF LoneInv, IInv, StackOK, DataOK
<1>1. CASE Call(t)
  BY <1>0, <1>1 DEF Call
<1>2. CASE Code(t)
  <2>1. CASE CheckExpiration(t)
    BY <1>0, <2>1 DEF CheckExpiration, Put, Goto, Counted
  <2>2. CASE CheckLogin(t) \/ GenerateHeader(t) \/ Send(t) \/ Backoff(t) \/ ReadFile(t)
    BY <1>0, <2>2 DEF CheckLogin, GenerateHeader, Send, Backoff, ReadFile, Put, Goto
  <2>3. CASE Restart(t) \/ Authenticate(t)
    BY <1>0, <2>3 DEF Restart, Authenticate, Put, Goto
  <2>4. CASE UseCachedLogin(t) \/ UseNewLogin(t)
    BY <1>0, <2>4 DEF UseCachedLogin, UseNewLogin, UseLogin, Raise, Return, Proceed, Put
  <2>5. CASE OpenFile(t) \/ StampFile(t) \/ CloseFile(t)
    BY <1>0, <2>5 DEF OpenFile, StampFile, CloseFile, Raise, Put, Goto
  <2> QED
    BY <1>2, <2>1, <2>2, <2>3, <2>4, <2>5 DEF Code
<1>3. CASE Answer(t)
  <2>1. CASE AnswerOk(t) \/ AnswerLogin(t) \/ AnswerError(t)
    BY <1>0, <2>1 DEF AnswerOk, AnswerLogin, AnswerError, Fault, Raise, Return
  <2>2. CASE AnswerKicked(t) \/ AnswerForbidden(t)
    BY <1>0, <2>2 DEF AnswerKicked, AnswerForbidden, Fault, Rejected, Put, Raise, Counted
  <2>3. CASE AnswerLimit(t) \/ AnswerGateway(t) \/ AnswerBusy(t)
    BY <1>0, <2>3 DEF AnswerLimit, AnswerGateway, AnswerBusy, Fault, RepeatOrRaise,
       Proceed, Put, Raise, Counted
  <2> QED
    BY <1>3, <2>1, <2>2, <2>3 DEF Answer
<1> QED
  BY <1>1, <1>2, <1>3

\* The other tasks work on other sessions and other files.
LEMMA OthersLone ==
    ASSUME LoneTasks, LoneInv, NEW t \in Tasks, Call(t) \/ Code(t) \/ Answer(t),
           NEW u \in Tasks, u # t
    PROVE  Lone(u)'
<1>1. Owner[u] # Owner[t] /\ Owner[u] \in Sessions /\ Owner[t] \in Sessions
  BY SessionAssumption DEF LoneTasks
<1>2. Account[Owner[u]] # Account[Owner[t]] /\ Account[Owner[u]] \in Files
  BY <1>1 DEF LoneTasks, Files
<1>3. Untouched(u) /\ (faults' = 0 => faults = 0) /\ restarts' = restarts
  BY <1>1, <1>2, OwnVariables DEF Untouched
<1> QED
  BY <1>3, UntouchedLone DEF LoneInv

\* Every step of a task keeps the facts about it.
LEMMA OwnLone ==
    ASSUME LoneInv, NEW t \in Tasks, Call(t) \/ Code(t) \/ Answer(t)
    PROVE  Lone(t)'
BY CallLone, CheckExpirationLone, CheckLoginLone, MoveLone, RestartLone,
   AuthenticateLone, ReadFileLone, UseLoginLone, OpenFileLone, StampFileLone,
   CloseFileLone, AnswerOkLone, AnswerLoginLone, RejectedLone, RepeatLone,
   AnswerErrorLone
DEF Code, Answer

\* A restart leaves the files, and a file that is half written for ever only
\* with the restart that explains it.
LEMMA RestartHomeAssistantLone ==
    ASSUME LoneInv, RestartHomeAssistant, NEW t \in Tasks
    PROVE  Lone(t)'
<1> DEFINE s == Owner[t]
<1>0. StackOK /\ DataOK /\ Lone(t) /\ s \in Sessions /\ Account[s] \in Files
  BY OwnerFile DEF LoneInv, IInv
<1>1. /\ stack'[t] = <<>> /\ token'[s] = 0 /\ retry'[s] = "no"
      /\ fileTime'[s] = 0 /\ result'[t] = "none" /\ file' = file
      /\ repeats' = repeats /\ faults' = faults /\ restarts' # 0
  BY <1>0 DEF RestartHomeAssistant, fileVars, DataOK
<1>2. Depth(t)' = 0 /\ (File(s))' = File(s)
  BY <1>1 DEF Depth, File
<1>3. File(s) # NoFile => File(s).ver > 0
  BY <1>0 DEF Lone, FileFacts
<1>4. \A e \in Cause : repeats[t][e] \in 0 .. 2
  BY <1>0 DEF DataOK, RepeatCap
<1>5. (NestFacts(Depth(t), Top(t), stack[t][1], token[s], retry[s], File(s), repeats[t]))'
  BY <1>0, <1>1, <1>2 DEF NestFacts, Lone
<1>6. (FileFacts(Depth(t), Top(t), loggedIn[s], token[s], fileTime[s], File(s), restarts))'
  BY <1>1, <1>2, <1>3 DEF FileFacts
<1>7. (RecoveryFacts(Depth(t), Top(t), retry[s], File(s), result[t], faults))'
  BY <1>1, <1>2 DEF RecoveryFacts
<1>8. (RepeatFacts(Depth(t), Top(t), loggedIn[s], retry[s], File(s), repeats[t]))'
  BY <1>0, <1>1, <1>2 DEF RepeatFacts, Lone, Other
<1> QED
  BY <1>5, <1>6, <1>7, <1>8 DEF Lone

\* Nothing is at work at first.
LEMMA InitLoneInv == Init => LoneInv
<1> SUFFICES ASSUME Init PROVE LoneInv
  OBVIOUS
<1>1. IInv /\ 0 \notin expired
  BY InitIInv DEF Init
<1>2. ASSUME NEW t \in Tasks PROVE Lone(t)
  <2>1. Owner[t] \in Sessions /\ Account[Owner[t]] \in Files
    BY <1>1, OwnerFile DEF IInv
  <2>2. /\ Depth(t) = 0 /\ token[Owner[t]] = 0 /\ retry[Owner[t]] = "no"
        /\ File(Owner[t]) = NoFile /\ result[t] = "none"
        /\ \A c \in Cause : repeats[t][c] = 0
    BY <2>1 DEF Init, Depth, File
  <2>3. "login" \in Cause /\ "expired" \in Cause /\ Retried \subseteq Cause
    BY DEF Cause, Retried
  <2> QED
    BY <2>2, <2>3 DEF Lone, NestFacts, FileFacts, RecoveryFacts, RepeatFacts
<1> QED
  BY <1>1, <1>2 DEF LoneInv

\* Every step of the system keeps the facts.
LEMMA NextLoneInv == LoneTasks /\ LoneInv /\ [Next]_vars => LoneInv'
<1> SUFFICES ASSUME LoneTasks, LoneInv, [Next]_vars PROVE LoneInv'
  OBVIOUS
<1>1. IInv'
  BY NextIInv DEF LoneInv
<1>2. CASE \E t \in Tasks : Call(t) \/ Code(t) \/ Answer(t)
  <2>1. PICK t \in Tasks : Call(t) \/ Code(t) \/ Answer(t)
    BY <1>2
  <2>2. Lone(t)'
    BY <2>1, OwnLone
  <2>3. \A u \in Tasks : u # t => Lone(u)'
    BY <2>1, OthersLone
  <2>4. expired' = expired
    <3>1. Call(t) => expired' = expired
      BY DEF Call, cloudVars
    <3>2. Code(t) => expired' = expired
      BY DEF Code, CheckExpiration, CheckLogin, GenerateHeader, Send, Backoff,
         Restart, Authenticate, ReadFile, UseCachedLogin, OpenFile, StampFile,
         CloseFile, UseNewLogin, UseLogin, cloudVars
    <3>3. Answer(t) => expired' = expired
      BY DEF Answer, AnswerOk, AnswerLogin, AnswerKicked, AnswerForbidden,
         AnswerLimit, AnswerGateway, AnswerBusy, AnswerError, Rejected,
         RepeatOrRaise, cloudVars
    <3> QED
      BY <2>1, <3>1, <3>2, <3>3
  <2> QED
    BY <1>1, <2>2, <2>3, <2>4 DEF LoneInv
<1>3. CASE RestartHomeAssistant
  BY <1>1, <1>3, RestartHomeAssistantLone DEF LoneInv, RestartHomeAssistant, cloudVars
<1>4. CASE Kick \/ Expire \/ UNCHANGED vars
  <2>1. 0 \notin expired'
    <3>1. \A n \in Tokens : n # 0
      BY IssuedLength DEF LoneInv, IInv, Tokens
    <3> QED
      BY <1>4, <3>1 DEF LoneInv, Kick, Expire, vars, cloudVars
  <2>2. ASSUME NEW t \in Tasks PROVE Lone(t)'
    <3>1. Untouched(t) /\ faults' = faults /\ restarts' = restarts
      BY <1>4 DEF Kick, Expire, vars, connVars, fileVars, histVars, boundVars, Untouched
    <3> QED
      BY <3>1, UntouchedLone DEF LoneInv
  <2> QED
    BY <1>1, <2>1, <2>2 DEF LoneInv
<1> QED
  BY <1>2, <1>3, <1>4 DEF Next

\* The invariant holds throughout.
LEMMA LoneInductive == ASSUME LoneTasks PROVE Spec => []LoneInv
<1>1. LoneInv /\ [Next]_vars => LoneInv'
  BY NextLoneInv
<1> QED
  BY InitLoneInv, <1>1, PTL DEF Spec

----------------------------------------------------------------------------

\* With one call at a time on each account, a failed login is raised: it is
\* neither repeated nor answered by another login inside it (session.py:364).
THEOREM LoneLoginFailsFast == ASSUME LoneTasks PROVE Spec => []LoginFailsFast
<1>1. LoneInv => LoginFailsFast
  BY DEF LoneInv, Lone, NestFacts, LoginFailsFast
<1> QED
  BY <1>1, LoneInductive, PTL

\* With one call at a time on each account, a session outside an
\* authentication that takes the time stamp of the cache file for its own
\* holds the token of that file.
THEOREM LoneCacheCoherent == ASSUME LoneTasks PROVE Spec => []CacheCoherent
<1>1. LoneInv => CacheCoherent
  <2> SUFFICES ASSUME LoneInv, NEW s \in Sessions, Exists(s),
                      fileTime[s] = File(s).ver,
                      \A t \in Tasks : Owner[t] = s => \A i \in 1 .. Depth(t) :
                          stack[t][i].pc \notin {"apply", "open", "write", "close", "done"}
               PROVE  token[s] = File(s).tok
    BY DEF CacheCoherent
  <2>1. PICK t \in Tasks : Owner[t] = s
    BY DEF LoneTasks
  <2>2. Depth(t) \in Nat
    BY DEF LoneInv, IInv, StackOK, Depth
  <2>3. Depth(t) = 0 \/ Top(t).pc \notin {"apply", "open", "write", "close", "done"}
    BY <2>1, <2>2 DEF Top
  <2> QED
    BY <2>1, <2>3 DEF LoneInv, Lone, FileFacts, Exists
<1> QED
  BY <1>1, LoneInductive, PTL

\* With one call at a time on each account and a healthy cloud, dropped and
\* expired tokens and restarts never make a call fail.
THEOREM LoneHealthyCloudNeverFails ==
    ASSUME LoneTasks PROVE Spec => []HealthyCloudNeverFails
<1>1. LoneInv => HealthyCloudNeverFails
  BY DEF LoneInv, Lone, RecoveryFacts, HealthyCloudNeverFails
<1> QED
  BY <1>1, LoneInductive, PTL

\* With one call at a time on each account, a request is repeated a second
\* time for one cause only after another kind of recovery.
THEOREM LoneSecondRepeatNeedsOtherCause ==
    ASSUME LoneTasks PROVE Spec => []SecondRepeatNeedsOtherCause
<1>1. LoneInv => SecondRepeatNeedsOtherCause
  <2> SUFFICES ASSUME LoneInv, NEW t \in Tasks, NEW c \in Cause \ {"kicked"},
                      repeats[t][c] > 1
               PROVE  Other(repeats[t], c)
    BY DEF SecondRepeatNeedsOtherCause, Other
  <2>1. repeats[t][c] \in 0 .. 2
    BY DEF LoneInv, IInv, DataOK, RepeatCap
  <2>2. c # "login"
    BY <2>1 DEF LoneInv, Lone, NestFacts
  <2>3. c = "expired" => Other(repeats[t], c)
    BY DEF LoneInv, Lone, RepeatFacts
  <2>4. c \in Retried /\ ~Other(repeats[t], c) => repeats[t][c] = 1
    BY <2>1 DEF LoneInv, Lone, RepeatFacts
  <2> QED
    BY <2>1, <2>2, <2>3, <2>4 DEF Cause, Retried
<1> QED
  BY <1>1, LoneInductive, PTL

\* With one call at a time on each account and a healthy cloud, a finished
\* call leaves the retry flag clear.
THEOREM LoneIdleIsReady == ASSUME LoneTasks PROVE Spec => []IdleIsReady
<1>1. LoneInv => IdleIsReady
  <2> SUFFICES ASSUME LoneInv, NEW s \in Sessions, Idle(s), faults = 0
               PROVE  retry[s] = "no"
    BY DEF IdleIsReady
  <2>1. PICK t \in Tasks : Owner[t] = s
    BY DEF LoneTasks
  <2>2. Depth(t) = 0
    BY <2>1 DEF Idle, Depth
  <2> QED
    BY <2>1, <2>2 DEF LoneInv, Lone, RecoveryFacts
<1> QED
  BY <1>1, LoneInductive, PTL

\* With one call at a time on each account, only a restart of Home Assistant
\* leaves an empty cache file behind.
THEOREM LoneCacheFileComplete == ASSUME LoneTasks PROVE Spec => []CacheFileComplete
<1>1. LoneInv => CacheFileComplete
  <2> SUFFICES ASSUME LoneInv, NEW s \in Sessions, Idle(s), restarts = 0, Exists(s)
               PROVE  File(s).tok # 0
    BY DEF CacheFileComplete
  <2>1. PICK t \in Tasks : Owner[t] = s
    BY DEF LoneTasks
  <2>2. Depth(t) = 0
    BY <2>1 DEF Idle, Depth
  <2> QED
    BY <2>1, <2>2 DEF LoneInv, Lone, FileFacts, Exists
<1> QED
  BY <1>1, LoneInductive, PTL

----------------------------------------------------------------------------
(***************************************************************************)
(* The throttle (RequestThrottle).  The invariant says of a sleeping       *)
(* request that there is room for it, or that the oldest request leaves    *)
(* the counter before the sleep ends.                                      *)
(***************************************************************************)
Ages == {a \in Nat : a < Window}

ThrottleTypeOK ==
  /\ ages \in Seq(Ages)
  /\ lastAge \in Nat /\ limit \in Nat /\ peak \in Nat
  /\ throttled \in BOOLEAN /\ repeated \in BOOLEAN /\ single \in BOOLEAN
  /\ requester \in
       [Requesters -> [at : {"rest", "sleep", "sent"}, left : Nat]]

Busy == Requesters \ Resters
Bound == Higher(limit, peak)

OneBusy ==
  single => \A r, s \in Requesters :
              requester[r] # Resting /\ requester[s] # Resting => r = s

RoomKept ==
  throttled /\ single
  => /\ limit > 0
     /\ Len(ages) <= Bound
     /\ \A r \in Requesters :
          /\ requester[r].at = "sent" => Len(ages) < Bound
          /\ requester[r].at = "sleep"
             => Len(ages) < Bound \/ requester[r].left + ages[1] >= Window

OldestFirst ==
  \A i \in 1..Len(ages) : \A j \in i..Len(ages) : ages[i] >= ages[j]

ThrottleInv == ThrottleTypeOK /\ OldestFirst /\ OneBusy /\ RoomKept

----------------------------------------------------------------------------

LEMMA HigherIs ==
  ASSUME NEW a \in Int, NEW b \in Int
  PROVE  Higher(a, b) \in {a, b} /\ Higher(a, b) >= a /\ Higher(a, b) >= b
BY DEF Higher

\* At least the one busy task is counted.
LEMMA BusyCounted ==
  /\ Cardinality(Busy) \in Nat
  /\ \A r \in Requesters : requester[r] # Resting => Cardinality(Busy) >= 1
<1>1. IsFiniteSet(Busy)
  BY ThrottleAssumption, FS_Subset DEF Busy
<1>2. Cardinality(Busy) \in Nat
  BY <1>1, FS_CardinalityType
<1>3. ASSUME NEW r \in Requesters, requester[r] # Resting
      PROVE  Cardinality(Busy) >= 1
  <2>1. r \in Busy
    BY <1>3 DEF Busy, Resters
  <2>2. Cardinality(Busy) # 0
    BY <1>1, <2>1, FS_EmptySet
  <2> QED
    BY <1>2, <2>2
<1> QED
  BY <1>2, <1>3

\* A throttled request sleeps until the oldest one has left the counter.
LEMMA SleepsLongEnough ==
  ASSUME NEW counted \in Seq(Ages), NEW on \in BOOLEAN, NEW last \in Nat,
         limit \in Nat
  PROVE  /\ Sleeping(counted, on, last).at = "sleep"
         /\ Sleeping(counted, on, last).left \in Nat
         /\ Sleeping(counted, on, last)
              \in [at : {"rest", "sleep", "sent"}, left : Nat]
         /\ on /\ limit > 0 /\ Len(counted) >= limit
            => Sleeping(counted, on, last).left + counted[1] >= Window
<1> DEFINE t == Throttle(counted, on, limit)
           d == RequestDelay - last
<1>1. d \in Int
  BY ThrottleAssumption
<1>2. Len(counted) >= limit /\ limit > 0 => counted[1] \in Ages
  BY LenProperties
<1>3. t \in Int
  BY <1>2, ThrottleAssumption DEF Throttle, Ages
<1>4. on /\ limit > 0 /\ Len(counted) >= limit => t + counted[1] >= Window
  BY <1>2, ThrottleAssumption DEF Throttle, Ages
<1>5. Higher(t, d) \in Int /\ Higher(t, d) >= t
  BY <1>1, <1>3, HigherIs
<1>6. Higher(0, Higher(t, d)) \in Nat /\ Higher(0, Higher(t, d)) >= Higher(t, d)
  BY <1>5, HigherIs
<1>7. Higher(0, Higher(t, d)) >= t
  BY <1>3, <1>5, <1>6
<1>8. Sleeping(counted, on, last)
        = [at |-> "sleep", left |-> Higher(0, Higher(t, d))]
  BY DEF Sleeping
<1>9. on /\ limit > 0 /\ Len(counted) >= limit
      => Higher(0, Higher(t, d)) + counted[1] >= Window
  <2> HIDE DEF t
  <2> QED
    BY <1>2, <1>3, <1>4, <1>6, <1>7, ThrottleAssumption DEF Ages
<1> HIDE DEF t, d
<1> QED
  BY <1>6, <1>8, <1>9

\* One more request is counted.
LEMMA CountedOne ==
  ASSUME ThrottleTypeOK
  PROVE  Tallied \in Seq(Ages) /\ Len(Tallied) = Len(ages) + 1
<1>1. 0 \in Ages
  BY ThrottleAssumption DEF Ages
<1> QED
  BY <1>1, AppendProperties DEF Tallied, ThrottleTypeOK

LEMMA CountedLast ==
  ASSUME ThrottleTypeOK, OldestFirst,
         ages' = Tallied \/ ages' = ages
  PROVE  OldestFirst'
<1>1. CASE ages' = ages
  BY <1>1 DEF OldestFirst
<1>2. CASE ages' = Tallied
  <2>1. /\ Len(ages') = Len(ages) + 1 /\ Len(ages) \in Nat
        /\ ages'[Len(ages) + 1] = 0
        /\ \A i \in 1..Len(ages) : ages'[i] = ages[i] /\ ages[i] \in Ages
    BY <1>2, AppendProperties, ThrottleAssumption
       DEF Tallied, Ages, ThrottleTypeOK
  <2> SUFFICES ASSUME NEW i \in 1..Len(ages'), NEW j \in i..Len(ages')
               PROVE  ages'[i] >= ages'[j]
    BY DEF OldestFirst
  <2>2. CASE j = Len(ages) + 1
    BY <2>1, <2>2 DEF Ages
  <2>3. CASE j # Len(ages) + 1
    <3>1. i \in 1..Len(ages) /\ j \in i..Len(ages) /\ j \in 1..Len(ages)
      BY <2>1, <2>3
    <3>2. ages[i] >= ages[j]
      BY <3>1 DEF OldestFirst
    <3> QED
      BY <2>1, <3>1, <3>2
  <2> QED
    BY <2>2, <2>3
<1> QED
  BY <1>1, <1>2

LEMMA BoundIs ==
  ASSUME ThrottleTypeOK
  PROVE  Bound \in Nat /\ Bound >= limit /\ Bound >= peak
BY HigherIs DEF Bound, ThrottleTypeOK

----------------------------------------------------------------------------
(* The steps *)

LEMMA InitThrottleInv == ThrottleInit => ThrottleInv
<1> SUFFICES ASSUME ThrottleInit PROVE ThrottleInv
  OBVIOUS
<1>1. ThrottleTypeOK
  <2>1. ages \in Seq(Ages)
    BY DEF ThrottleInit
  <2>2. requester \in
          [Requesters -> [at : {"rest", "sleep", "sent"}, left : Nat]]
    BY DEF ThrottleInit, Resting
  <2> QED
    BY <2>1, <2>2, ThrottleAssumption DEF ThrottleInit, ThrottleTypeOK
<1> QED
  BY <1>1 DEF ThrottleInit, ThrottleInv, OldestFirst, OneBusy, RoomKept

\* A task changes what it does, alone or after the others ceased to matter.
LEMMA StillOne ==
  ASSUME ThrottleTypeOK, OneBusy, NEW r \in Requesters, NEW q,
         requester' = [requester EXCEPT ![r] = q],
         single' => single /\ (q = Resting \/ Requesters \ {r} \subseteq Resters
                               \/ requester[r] # Resting)
  PROVE  OneBusy'
<1> SUFFICES ASSUME single', NEW s \in Requesters, NEW t \in Requesters,
                    requester'[s] # Resting, requester'[t] # Resting
             PROVE  s = t
  BY DEF OneBusy
<1>1. \A u \in Requesters : requester'[u] = IF u = r THEN q ELSE requester[u]
  BY DEF ThrottleTypeOK
<1> QED
  BY <1>1 DEF OneBusy, Resters

\* What the single busy task leaves to prove about the others.
LEMMA OthersRest ==
  ASSUME ThrottleTypeOK, OneBusy, single,
         NEW r \in Requesters, requester[r] # Resting
  PROVE  \A s \in Requesters \ {r} : requester[s] = Resting
BY DEF OneBusy

LEMMA BeginRequestKeeps ==
  ASSUME ThrottleInv, NEW r \in Requesters, BeginRequest(r)
  PROVE  ThrottleInv'
<1> USE DEF ThrottleInv
<1> DEFINE q == Sleeping(ages, throttled, lastAge)
<1>1. /\ requester' = [requester EXCEPT ![r] = q]
      /\ single' = (single /\ Resters = Requesters)
      /\ UNCHANGED <<ages, lastAge, throttled, limit, repeated, peak>>
  BY DEF BeginRequest
<1>2. /\ q \in [at : {"rest", "sleep", "sent"}, left : Nat] /\ q.at = "sleep"
      /\ throttled /\ limit > 0 /\ Len(ages) >= limit
         => q.left + ages[1] >= Window
  BY SleepsLongEnough DEF ThrottleTypeOK
<1> HIDE DEF q
<1>3. ThrottleTypeOK'
  <2>1. single' \in BOOLEAN
    BY <1>1 DEF ThrottleTypeOK
  <2> QED
    BY <1>1, <1>2, <2>1 DEF ThrottleTypeOK
<1>4. OneBusy'
  BY <1>1, StillOne
<1>5. RoomKept'
  <2> SUFFICES ASSUME throttled, single, Resters = Requesters,
                      NEW s \in Requesters
               PROVE  /\ limit > 0 /\ Len(ages) <= Bound
                      /\ requester'[s].at = "sent" => Len(ages) < Bound
                      /\ requester'[s].at = "sleep"
                         => \/ Len(ages) < Bound
                            \/ requester'[s].left + ages[1] >= Window
    <3>1. Bound' = Bound
      BY <1>1 DEF Bound
    <3>2. throttled /\ single => limit > 0 /\ Len(ages) <= Bound
      BY DEF RoomKept
    <3> QED
      BY <1>1, <3>1, <3>2 DEF RoomKept
  <2>1. limit > 0 /\ Len(ages) <= Bound
    BY DEF RoomKept
  <2>2. s # r => requester'[s] = Resting
    BY <1>1 DEF Resters, ThrottleTypeOK
  <2>3. s = r => requester'[s] = q
    BY <1>1 DEF ThrottleTypeOK
  <2>4. Len(ages) < Bound \/ Len(ages) >= limit
    BY BoundIs, LenProperties DEF ThrottleTypeOK
  <2> QED
    BY <1>2, <2>1, <2>2, <2>3, <2>4 DEF Resting
<1>6. OldestFirst'
  BY <1>1 DEF OldestFirst
<1> QED
  BY <1>3, <1>4, <1>5, <1>6

LEMMA SendRequestKeeps ==
  ASSUME ThrottleInv, NEW r \in Requesters, SendRequest(r)
  PROVE  ThrottleInv'
<1> USE DEF ThrottleInv
<1> DEFINE q == [requester[r] EXCEPT !.at = "sent"]
<1>1. /\ requester[r] = [at |-> "sleep", left |-> 0]
      /\ requester' = [requester EXCEPT ![r] = q]
      /\ UNCHANGED <<ages, lastAge, throttled, limit, repeated, single, peak>>
  BY DEF SendRequest
<1>2. q = [at |-> "sent", left |-> 0]
  BY <1>1
<1> HIDE DEF q
<1>3. ThrottleTypeOK'
  BY <1>1, <1>2 DEF ThrottleTypeOK
<1>4. OneBusy'
  <2>1. requester[r] # Resting
    BY <1>1 DEF Resting
  <2> QED
    BY <1>1, <2>1, StillOne
<1>5. RoomKept'
  <2> SUFFICES ASSUME throttled, single PROVE RoomKept'
    BY <1>1 DEF RoomKept
  <2>1. limit > 0 /\ Len(ages) <= Bound /\ Bound' = Bound
    BY <1>1 DEF RoomKept, Bound
  <2>2. Len(ages) < Bound
    <3>1. Len(ages) < Bound \/ 0 + ages[1] >= Window
      BY <1>1 DEF RoomKept
    <3>2. CASE Len(ages) = 0
      BY <2>1, <3>2, BoundIs DEF ThrottleTypeOK
    <3>3. CASE Len(ages) # 0
      <4>1. ages[1] \in Ages
        BY <3>3, LenProperties DEF ThrottleTypeOK
      <4> QED
        BY <3>1, <4>1, ThrottleAssumption DEF Ages
    <3> QED
      BY <3>2, <3>3
  <2> QED
    BY <1>1, <2>1, <2>2 DEF RoomKept, ThrottleTypeOK
<1>6. OldestFirst'
  BY <1>1 DEF OldestFirst
<1> QED
  BY <1>3, <1>4, <1>5, <1>6

\* Whoever rests again leaves nothing to wait for; what it had counted fits.
LEMMA AnswerKeeps ==
  ASSUME ThrottleInv, NEW r \in Requesters, requester[r].at = "sent",
         requester' = [requester EXCEPT ![r] = Resting],
         ages' = Tallied \/ ages' = ages,
         lastAge' = 0 \/ lastAge' = lastAge,
         repeated' \in BOOLEAN,
         UNCHANGED <<throttled, limit, single, peak>>
  PROVE  ThrottleInv'
<1> USE DEF ThrottleInv
<1>1. /\ ages' \in Seq(Ages)
      /\ Len(ages') \in {Len(ages), Len(ages) + 1} /\ Len(ages) \in Nat
  BY CountedOne, LenProperties DEF ThrottleTypeOK
<1>2. ThrottleTypeOK'
  BY <1>1 DEF ThrottleTypeOK, Resting
<1>3. OneBusy'
  BY StillOne
<1>4. RoomKept'
  <2> SUFFICES ASSUME throttled, single PROVE RoomKept'
    BY DEF RoomKept
  <2>1. limit > 0 /\ Len(ages) < Bound /\ Bound' = Bound /\ Bound \in Nat
    BY BoundIs DEF RoomKept, Bound
  <2>2. \A s \in Requesters : requester'[s] = Resting
    <3>1. requester[r] # Resting
      BY DEF Resting
    <3> QED
      BY <3>1, OthersRest DEF ThrottleTypeOK
  <2> QED
    BY <1>1, <2>1, <2>2 DEF RoomKept, Resting
<1>5. OldestFirst'
  BY CountedLast
<1> QED
  BY <1>2, <1>3, <1>4, <1>5

LEMMA TooManyRequestsKeeps ==
  ASSUME ThrottleInv, NEW r \in Requesters, TooManyRequests(r)
  PROVE  ThrottleInv'
<1> USE DEF ThrottleInv
<1>1. requester[r].at = "sent" /\ ages' = Tallied /\ lastAge' = 0
      /\ limit' = limit
  BY DEF TooManyRequests
<1>2. CASE ~(~repeated /\ limit > 0)
  BY <1>1, <1>2, AnswerKeeps DEF TooManyRequests, ThrottleTypeOK
<1>3. CASE ~repeated /\ limit > 0
  <2> DEFINE q == Sleeping(Tallied, TRUE, 0)
  <2>1. /\ repeated' = TRUE /\ throttled' = TRUE
        /\ peak' = IF throttled THEN peak ELSE Len(ages) + Cardinality(Busy)
        /\ requester' = [requester EXCEPT ![r] = q]
        /\ single' = (single /\ Resters = Requesters \ {r})
    BY <1>3 DEF TooManyRequests, Busy
  <2>2. /\ q \in [at : {"rest", "sleep", "sent"}, left : Nat]
        /\ q.at = "sleep"
        /\ limit > 0 /\ Len(Tallied) >= limit
           => q.left + Tallied[1] >= Window
    BY CountedOne, SleepsLongEnough DEF ThrottleTypeOK
  <2> HIDE DEF q
  <2>3. requester[r] # Resting
    BY <1>1 DEF Resting
  <2>4. /\ Cardinality(Busy) \in Nat /\ Cardinality(Busy) >= 1
        /\ Len(ages) \in Nat
    BY <2>3, BusyCounted, LenProperties DEF ThrottleTypeOK
  <2>5. ThrottleTypeOK'
    <3>1. peak' \in Nat
      BY <2>1, <2>4 DEF ThrottleTypeOK
    <3>2. single' \in BOOLEAN
      BY <2>1 DEF ThrottleTypeOK
    <3> QED
      BY <1>1, <2>1, <2>2, <3>1, <3>2, CountedOne DEF ThrottleTypeOK
  <2>6. OneBusy'
    BY <2>1, <2>3, StillOne
  <2>7. RoomKept'
    <3> SUFFICES ASSUME single, Resters = Requesters \ {r} PROVE RoomKept'
      BY <2>1 DEF RoomKept
    <3>1. Bound' \in Nat /\ Bound' >= limit /\ Bound' >= peak'
      BY <1>1, <2>5, HigherIs DEF Bound, ThrottleTypeOK
    <3>2. Len(Tallied) <= Bound'
      <4>1. CASE throttled
        <5>1. Len(ages) < Bound /\ Bound' = Bound /\ Bound \in Nat
          BY <1>1, <2>1, <4>1, BoundIs DEF RoomKept, Bound
        <5> QED
          BY <2>4, <5>1, CountedOne
      <4>2. CASE ~throttled
        BY <2>1, <2>4, <3>1, <4>2, CountedOne
      <4> QED
        BY <4>1, <4>2
    <3>3. ASSUME NEW s \in Requesters
          PROVE  /\ requester'[s].at = "sent" => Len(ages') < Bound'
                 /\ requester'[s].at = "sleep"
                    => \/ Len(ages') < Bound'
                       \/ requester'[s].left + ages'[1] >= Window
      <4>1. s # r => requester'[s] = Resting
        BY <2>1 DEF Resters, ThrottleTypeOK
      <4>2. s = r => requester'[s] = q
        BY <2>1 DEF ThrottleTypeOK
      <4>3. Len(Tallied) < Bound' \/ Len(Tallied) >= limit
        BY <2>4, <3>1, CountedOne DEF ThrottleTypeOK
      <4> QED
        BY <1>1, <1>3, <2>2, <4>1, <4>2, <4>3 DEF Resting
    <3> QED
      BY <1>1, <1>3, <3>2, <3>3 DEF RoomKept
  <2>8. OldestFirst'
    BY <1>1, CountedLast
  <2> QED
    BY <2>5, <2>6, <2>7, <2>8
<1> QED
  BY <1>2, <1>3

LEMMA SetLimitKeeps ==
  ASSUME ThrottleInv, NEW max \in Limits, SetLimit(max)
  PROVE  ThrottleInv'
<1> USE DEF ThrottleInv
<1>1. /\ limit' = max /\ throttled' = (throttled /\ max > 0)
      /\ peak' = Len(ages) + Cardinality(Busy)
      /\ UNCHANGED <<ages, lastAge, repeated, requester, single>>
  BY DEF SetLimit, Busy
<1>2. /\ max \in Nat /\ Len(ages) \in Nat /\ Cardinality(Busy) \in Nat
  BY ThrottleAssumption, BusyCounted, LenProperties DEF ThrottleTypeOK
<1>3. ThrottleTypeOK'
  <2>1. throttled' \in BOOLEAN
    BY <1>1 DEF ThrottleTypeOK
  <2>2. peak' \in Nat
    BY <1>1, <1>2
  <2> QED
    BY <1>1, <1>2, <2>1, <2>2 DEF ThrottleTypeOK
<1>4. OneBusy'
  BY <1>1 DEF OneBusy
<1>5. RoomKept'
  <2>1. Bound' >= Len(ages) + Cardinality(Busy) /\ Bound' \in Nat
    BY <1>1, <1>2, HigherIs DEF Bound
  <2>2. Len(ages) <= Bound'
    BY <1>2, <2>1
  <2>3. \A s \in Requesters : requester[s] # Resting => Len(ages) < Bound'
    BY <1>2, <2>1, BusyCounted
  <2>4. \A s \in Requesters :
          requester[s].at \in {"sent", "sleep"} => Len(ages) < Bound'
    BY <2>3 DEF Resting
  <2> QED
    BY <1>1, <1>2, <2>2, <2>4 DEF RoomKept
<1>6. OldestFirst'
  BY <1>1 DEF OldestFirst
<1> QED
  BY <1>3, <1>4, <1>5, <1>6

\* A tick makes the requests older and drops those that no longer count.
LEMMA AgesPassed ==
  ASSUME ThrottleTypeOK, OldestFirst, PassTime
  PROVE  /\ ages' \in Seq(Ages) /\ OldestFirst'
         /\ Len(ages') \in Nat /\ Len(ages') <= Len(ages)
         /\ Len(ages') = Len(ages) /\ ages # <<>> => ages'[1] = ages[1] + 1
<1> DEFINE n == Len(ages)
           young == {i \in 1..n : ages[i] + 1 < Window}
           count == Cardinality(young)
           gone == n - count
<1>1. ages' = [i \in 1..count |-> ages[i + gone] + 1]
  BY DEF PassTime
<1>2. n \in Nat /\ \A i \in 1..n : ages[i] \in Ages
  BY LenProperties DEF ThrottleTypeOK
<1>3. IsFiniteSet(1..n) /\ Cardinality(1..n) = n
  BY <1>2, FS_Interval
<1>4. IsFiniteSet(young) /\ count \in Nat /\ count <= n
  BY <1>3, FS_Subset, FS_CardinalityType
<1>5. ASSUME NEW i \in 1..count
      PROVE  i + gone \in 1..n /\ ages[i + gone] + 1 < Window
  <2>1. i + gone \in 1..n
    BY <1>2, <1>4
  <2>2. ASSUME ~(ages[i + gone] + 1 < Window) PROVE FALSE
    <3>1. young \subseteq (i + gone + 1)..n
      <4> SUFFICES ASSUME NEW j \in young, j <= i + gone PROVE FALSE
        BY <1>2, <2>1
      <4>1. ages[j] >= ages[i + gone]
        BY <1>2, <2>1 DEF OldestFirst
      <4> QED
        BY <1>2, <2>1, <2>2, <4>1, ThrottleAssumption DEF Ages
    <3>2. IsFiniteSet((i + gone + 1)..n)
          /\ Cardinality((i + gone + 1)..n) = n - (i + gone)
      <4> DEFINE m == i + gone
      <4>1. m \in 1..n
        BY <2>1
      <4> HIDE DEF m
      <4>2. m + 1 \in Int /\ n \in Int
        BY <1>2, <4>1
      <4>3. /\ IsFiniteSet((m + 1)..n)
            /\ Cardinality((m + 1)..n)
                 = IF m + 1 > n THEN 0 ELSE n - (m + 1) + 1
        BY <4>2, FS_Interval
      <4>4. IsFiniteSet((m + 1)..n) /\ Cardinality((m + 1)..n) = n - m
        BY <1>2, <4>1, <4>3
      <4> QED
        BY <4>4 DEF m
    <3>3. count <= n - (i + gone)
      BY ZenonT(40), <3>1, <3>2, FS_Subset
    <3> QED
      BY <1>2, <1>4, <3>3
  <2> QED
    BY <2>1, <2>2
<1> HIDE DEF count
<1>6. ages' \in [1..count -> Ages]
  <2> SUFFICES ASSUME NEW i \in 1..count PROVE ages[i + gone] + 1 \in Ages
    BY <1>1
  <2> QED
    BY <1>2, <1>5, ThrottleAssumption DEF Ages
<1>7. ages' \in Seq(Ages) /\ Len(ages') = count
  BY <1>4, <1>6
<1>8. OldestFirst'
  <2> SUFFICES ASSUME NEW i \in 1..count, NEW j \in i..count
               PROVE  ages[i + gone] + 1 >= ages[j + gone] + 1
    <3>1. \A k \in 1..count : ages'[k] = ages[k + gone] + 1
      BY <1>1
    <3>2. \A k \in 1..count : \A l \in k..count : l \in 1..count
      BY <1>4
    <3> QED
      BY <1>7, <3>1, <3>2 DEF OldestFirst
  <2>1. j \in 1..count
    BY <1>4
  <2>2. i + gone \in 1..n /\ j + gone \in (i + gone)..n /\ j + gone \in 1..n
    BY <1>2, <1>4, <1>5, <2>1
  <2>3. ages[i + gone] >= ages[j + gone]
    BY <2>2 DEF OldestFirst
  <2> QED
    BY <1>2, <2>2, <2>3 DEF Ages
<1>9. count = n /\ ages # <<>> => ages'[1] = ages[1] + 1
  <2> SUFFICES ASSUME count = n, ages # <<>> PROVE ages'[1] = ages[1] + 1
    OBVIOUS
  <2>1. 1 \in 1..count /\ gone = 0
    BY <1>2, EmptySeq DEF ThrottleTypeOK
  <2> QED
    BY <1>1, <2>1
<1> QED
  BY <1>2, <1>4, <1>7, <1>8, <1>9

LEMMA PassTimeKeeps ==
  ASSUME ThrottleInv, PassTime
  PROVE  ThrottleInv'
<1> USE DEF ThrottleInv
<1>1. /\ lastAge' = IF lastAge < RequestDelay THEN lastAge + 1 ELSE lastAge
      /\ requester' = [r \in Requesters |->
                         [requester[r] EXCEPT !.left = Higher(0, @ - 1)]]
      /\ UNCHANGED <<throttled, limit, repeated, single, peak>>
  BY DEF PassTime
<1>2. \A r \in Requesters :
        /\ requester[r].left \in Nat
        /\ requester'[r].at = requester[r].at
        /\ requester'[r].left \in Nat
        /\ requester'[r].left >= requester[r].left - 1
        /\ requester'[r] \in [at : {"rest", "sleep", "sent"}, left : Nat]
        /\ requester[r] = Resting => requester'[r] = Resting
  <2> TAKE r \in Requesters
  <2>1. requester[r].left \in Nat
        /\ requester[r] \in [at : {"rest", "sleep", "sent"}, left : Nat]
    BY DEF ThrottleTypeOK
  <2> DEFINE left == Higher(0, requester[r].left - 1)
  <2>2. left \in Nat /\ left >= requester[r].left - 1
        /\ (requester[r].left = 0 => left = 0)
    BY <2>1 DEF Higher
  <2>3. requester'[r] = [requester[r] EXCEPT !.left = left]
    BY <1>1
  <2>4. requester'[r] = [at |-> requester[r].at, left |-> left]
    BY <2>1, <2>3
  <2> HIDE DEF left
  <2> QED
    BY <2>1, <2>2, <2>4 DEF Resting
<1>3. ThrottleTypeOK'
  <2>1. lastAge' \in Nat
    BY <1>1 DEF ThrottleTypeOK
  <2>2. requester' \in
          [Requesters -> [at : {"rest", "sleep", "sent"}, left : Nat]]
    BY <1>1, <1>2
  <2> QED
    BY <1>1, <2>1, <2>2, AgesPassed DEF ThrottleTypeOK
<1>4. OneBusy'
  BY <1>1, <1>2 DEF OneBusy
<1>5. RoomKept'
  <2> SUFFICES ASSUME throttled, single PROVE RoomKept'
    BY <1>1 DEF RoomKept
  <2>1. /\ limit > 0 /\ Len(ages) <= Bound /\ Bound' = Bound
        /\ Bound \in Nat /\ Len(ages) \in Nat
    BY <1>1, BoundIs, LenProperties DEF RoomKept, Bound, ThrottleTypeOK
  <2>2. Len(ages') \in Nat /\ Len(ages') <= Len(ages)
    BY AgesPassed
  <2>3. ASSUME NEW r \in Requesters
        PROVE  /\ requester'[r].at = "sent" => Len(ages') < Bound
               /\ requester'[r].at = "sleep"
                  => \/ Len(ages') < Bound
                     \/ requester'[r].left + ages'[1] >= Window
    <3>1. /\ requester[r].at = "sent" => Len(ages) < Bound
          /\ requester[r].at = "sleep"
             => Len(ages) < Bound \/ requester[r].left + ages[1] >= Window
      BY DEF RoomKept
    <3>2. CASE Len(ages') < Len(ages) \/ Len(ages) < Bound
      BY <2>1, <2>2, <3>2, <1>2, <3>1
    <3>3. CASE Len(ages') = Len(ages) /\ Len(ages) = Bound
      <4>1. Len(ages) > 0
        BY <2>1, <3>3, BoundIs DEF ThrottleTypeOK
      <4>2. ages # <<>> /\ ages[1] \in Ages
        BY <4>1, LenProperties DEF ThrottleTypeOK
      <4>3. ages'[1] = ages[1] + 1
        BY <3>3, <4>2, AgesPassed
      <4> QED
        BY <1>2, <2>1, <3>1, <3>3, <4>2, <4>3, ThrottleAssumption DEF Ages
    <3> QED
      BY <2>1, <2>2, <3>2, <3>3
  <2> QED
    BY <1>1, <2>1, <2>2, <2>3 DEF RoomKept
<1>6. OldestFirst'
  BY AgesPassed
<1> QED
  BY <1>3, <1>4, <1>5, <1>6

LEMMA NextThrottleInv ==
  ASSUME ThrottleInv, [ThrottleNext]_throttleVars
  PROVE  ThrottleInv'
<1>1. CASE UNCHANGED throttleVars
  BY <1>1 DEF throttleVars, ThrottleInv, ThrottleTypeOK, OldestFirst, OneBusy,
              RoomKept, Bound
<1>2. ASSUME NEW r \in Requesters, AnswerRequest(r) \/ NoAnswer(r)
      PROVE  ThrottleInv'
  BY <1>2, AnswerKeeps DEF AnswerRequest, NoAnswer
<1>3. CASE ThrottleNext
  BY <1>2, <1>3, BeginRequestKeeps, SendRequestKeeps, TooManyRequestsKeeps,
     SetLimitKeeps, PassTimeKeeps
     DEF ThrottleNext
<1> QED
  BY <1>1, <1>3

LEMMA ThrottleInductive == ThrottleSpec => []ThrottleInv
<1> QED
  BY InitThrottleInv, NextThrottleInv, PTL DEF ThrottleSpec

\* A task that has the session for itself keeps the limit of a throttled
\* endpoint (session.py:275), whatever the answers, limits and times.
THEOREM LoneTaskIsThrottled == ThrottleSpec => []LoneTaskKeepsLimit
<1>1. ThrottleInv => LoneTaskKeepsLimit
  BY DEF ThrottleInv, RoomKept, LoneTaskKeepsLimit, Bound
<1> QED
  BY <1>1, ThrottleInductive, PTL
=============================================================================
