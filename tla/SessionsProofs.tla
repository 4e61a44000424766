---------------------------- MODULE SessionsProofs ----------------------------
(***************************************************************************)
(* Proofs about Sessions: which sessions can outlive a login or a change   *)
(* of password, that a chain of tokens never forks, and who can lift a     *)
(* lock.                                                                   *)
(***************************************************************************)
EXTENDS Sessions, TLAPS

\* Steps of a request that touch neither the tokens nor the password.
Quiet(r) ==
  \/ LoginGuard(r) \/ LoginFind(r) \/ CountFailure(r) \/ ClearFailures(r) \/ RevokeOld(r)
  \/ RefreshFind(r) \/ ReuseDetected(r) \/ LogoutFind(r) \/ ChangeFind(r) \/ SetPassword(r)
  \/ RecordAudit(r) \/ RequestFails(r)

\* The steps that do.
Effect(r) == OpenSession(r) \/ Rotate(r) \/ Revoke(r) \/ CommitPassword(r)

LEMMA Cases ==
  ASSUME [Next]_vars
  PROVE  \/ \E r \in Requests : Quiet(r) \/ Effect(r)
         \/ LockRunsOut \/ (\E t \in Tokens : TokenExpires(t)) \/ UNCHANGED vars
  BY DEF Next, Step, Time, Login, Refresh, Logout, PatchPassword, Quiet, Effect

LEMMA QuietLeaves ==
  ASSUME NEW r \in Requests, Quiet(r)
  PROVE  UNCHANGED <<password, tokenVars, crossed>>
  BY DEF Quiet, LoginGuard, LoginFind, CountFailure, ClearFailures, RevokeOld, RefreshFind,
     ReuseDetected, LogoutFind, ChangeFind, SetPassword, RecordAudit, RequestFails, customerVars,
     loginVars

\* A request moves itself only, and to its next phase.
Moves(r) ==
  \/ pc[r] = "idle" /\ \E p \in {"find", "rotate", "revoke", "change", "audit", "answered"} : Goto(r, p)
  \/ pc[r] = "find" /\ \E p \in {"wrong", "reset"} : Goto(r, p)
  \/ pc[r] = "reset" /\ Goto(r, "revokeOld")
  \/ pc[r] = "revokeOld" /\ Goto(r, "create") /\ snap'[r] = Active
  \/ pc[r] = "change" /\ Goto(r, "changing") /\ snap'[r] = Active
  \/ pc[r] # "idle" /\ \E p \in {"audit", "answered"} : Goto(r, p)

LEMMA MovesItself ==
  ASSUME TypeOK, NEW r \in Requests, Quiet(r) \/ Effect(r)
  PROVE  Moves(r) /\ \A q \in Requests \ {r} : snap'[q] = snap[q]
<1>1. CASE LoginGuard(r) \/ LoginFind(r) \/ CountFailure(r) \/ ClearFailures(r) \/ RevokeOld(r)
  BY <1>1 DEF TypeOK, Moves, LoginGuard, LoginFind, CountFailure, ClearFailures, RevokeOld, Arrive,
     Answer, Conclude, Goto
<1>2. CASE RefreshFind(r) \/ ReuseDetected(r) \/ LogoutFind(r) \/ ChangeFind(r) \/ SetPassword(r)
  BY <1>2 DEF TypeOK, Moves, RefreshFind, ReuseDetected, LogoutFind, ChangeFind, SetPassword, Arrive,
     Answer, Conclude, Goto
<1>3. CASE RecordAudit(r) \/ RequestFails(r) \/ Effect(r)
  BY <1>3 DEF TypeOK, Moves, RecordAudit, RequestFails, Effect, OpenSession, Rotate, Revoke,
     CommitPassword, Answer, Conclude, Goto
<1> QED
  BY <1>1, <1>2, <1>3 DEF Quiet

LEMMA InitIInv == Init => IInv
<1> SUFFICES ASSUME Init PROVE IInv
  OBVIOUS
<1>1. TypeOK
  BY DEF Init, TypeOK, Tokens, Phases
<1>2. Live = {Earlier} /\ Revoking = {} /\ LetIn = {}
  BY DEF Init, Live, Active, Revoking, LetIn
<1>3. PhaseInv /\ ChainInv /\ WindowInv /\ PasswordInv /\ LockInv
  BY <1>2, EarlierAssumption DEF Init, PhaseInv, ChainInv, ChainNeverForks, WindowInv, PasswordInv, LockInv,
     Tokens
<1>4. TwoSessionsOverlapped /\ OldSessionsOverlapped
  BY <1>2 DEF Init, TwoSessionsOverlapped, OldSessionsOverlapped, Tokens
<1> QED
  BY <1>1, <1>3, <1>4 DEF IInv

-----------------------------------------------------------------------------
(* Types. *)

LEMMA TypeStep == IInv /\ [Next]_vars => TypeOK'
<1> SUFFICES ASSUME IInv, [Next]_vars PROVE TypeOK'
  OBVIOUS
<1> USE DEF IInv, TypeOK
<1>1. ASSUME NEW r \in Requests, LoginGuard(r) \/ LoginFind(r) PROVE TypeOK'
  BY <1>1 DEF LoginGuard, LoginFind, Arrive, Answer, Goto, Phases, Tokens, customerVars, tokenVars,
     loginVars
<1>2. ASSUME NEW r \in Requests, CountFailure(r) PROVE TypeOK'
  <2>1. early' \subseteq Requests /\ failed' \in Nat
    BY <1>2 DEF CountFailure, PastLockCheck
  <2> QED
    BY <1>2, <2>1 DEF CountFailure, Conclude, Goto, Phases, tokenVars
<1>3. ASSUME NEW r \in Requests, ClearFailures(r) \/ RevokeOld(r) PROVE TypeOK'
  BY <1>3 DEF ClearFailures, RevokeOld, Active, Goto, Phases, Tokens, customerVars, tokenVars,
     loginVars
<1>4. ASSUME NEW r \in Requests, RefreshFind(r) \/ ReuseDetected(r) \/ LogoutFind(r) PROVE TypeOK'
  BY <1>4 DEF RefreshFind, ReuseDetected, LogoutFind, Arrive, Answer, Goto, Phases, Tokens,
     customerVars, tokenVars, loginVars
<1>5. ASSUME NEW r \in Requests, ChangeFind(r) \/ SetPassword(r) PROVE TypeOK'
  BY <1>5 DEF ChangeFind, SetPassword, Active, Arrive, Answer, Goto, Phases, Tokens,
     customerVars, tokenVars, loginVars
<1>6. ASSUME NEW r \in Requests, RecordAudit(r) \/ RequestFails(r) PROVE TypeOK'
  BY <1>6 DEF RecordAudit, RequestFails, Answer, Goto, Phases, customerVars, tokenVars, loginVars
<1>7. ASSUME NEW r \in Requests, Effect(r) PROVE TypeOK'
  <2>1. Revoking \subseteq Requests /\ r \in Tokens
    BY DEF Revoking, Tokens
  <2>2. CASE OpenSession(r)
    BY <2>1, <2>2 DEF PhaseInv, OpenSession, Conclude, Goto, Phases, Tokens, customerVars, loginVars
  <2>3. CASE Rotate(r)
    BY <1>7, <2>1, <2>3 DEF PhaseInv, Rotate, Conclude, Goto, Phases, customerVars, loginVars
  <2>4. CASE Revoke(r)
    BY <2>4 DEF PhaseInv, Revoke, Conclude, Goto, Phases, customerVars, loginVars
  <2>5. CASE CommitPassword(r)
    BY <2>1, <2>5 DEF PhaseInv, CommitPassword, Conclude, Goto, Phases
  <2> QED
    BY <1>7, <2>2, <2>3, <2>4, <2>5 DEF Effect
<1>8. CASE LockRunsOut \/ \E t \in Tokens : TokenExpires(t)
  BY <1>8 DEF LockRunsOut, TokenExpires, Live, Active, tokenVars, loginVars, customerVars
<1>9. CASE UNCHANGED vars
  BY <1>9 DEF vars, customerVars, tokenVars, loginVars
<1> QED
  BY <1>1, <1>2, <1>3, <1>4, <1>5, <1>6, <1>7, <1>8, <1>9, Cases DEF Quiet

-----------------------------------------------------------------------------
(* Phases. *)

LEMMA PhaseStep == IInv /\ [Next]_vars => PhaseInv'
<1> SUFFICES ASSUME IInv, [Next]_vars PROVE PhaseInv'
  OBVIOUS
<1> USE DEF IInv
<1>1. ASSUME NEW r \in Requests, Quiet(r) \/ Effect(r), NEW q \in Requests
      PROVE  /\ pc'[q] = "idle" => op'[q] = "none"
             /\ pc'[q] \in {"change", "changing"} => op'[q] = "change"
             /\ pc'[q] \in {"rotate", "revoke"} => held'[q] \in stored'
             /\ q \in stored' => pc'[q] \in {"audit", "answered"}
             /\ snap'[q] \subseteq stored'
  <2>1. stored \subseteq stored' /\ (stored' # stored => stored' = stored \cup {r} /\ pc'[r] = "audit")
    BY <1>1, QuietLeaves DEF TypeOK, Effect, OpenSession, Rotate, Revoke, CommitPassword, tokenVars,
       Conclude, Goto
  <2>2. CASE q # r
    <3>1. pc'[q] = pc[q] /\ op'[q] = op[q] /\ held'[q] = held[q] /\ snap'[q] = snap[q]
      <4>1. pc'[q] = pc[q] /\ snap'[q] = snap[q]
        BY <1>1, <2>2, MovesItself DEF Moves, Goto, TypeOK
      <4>2. op'[q] = op[q] /\ held'[q] = held[q]
        BY <1>1, <2>2 DEF TypeOK, Quiet, Effect, LoginGuard, LoginFind, CountFailure, ClearFailures,
           RevokeOld, RefreshFind, ReuseDetected, LogoutFind, ChangeFind, SetPassword, RecordAudit,
           RequestFails, OpenSession, Rotate, Revoke, CommitPassword, Arrive
      <4> QED
        BY <4>1, <4>2
    <3> QED
      BY <2>1, <2>2, <3>1 DEF PhaseInv
  <2>3. CASE q = r
    <3>1. pc'[r] # "idle" /\ (r \in stored => pc'[r] \in {"audit", "answered"})
      BY <1>1, MovesItself DEF PhaseInv, Moves, Goto, TypeOK
    <3>2. pc'[r] \in {"change", "changing"} => op'[r] = "change"
      BY <1>1 DEF TypeOK, PhaseInv, Quiet, Effect, LoginGuard, LoginFind, CountFailure, ClearFailures,
         RevokeOld, RefreshFind, ReuseDetected, LogoutFind, ChangeFind, SetPassword, RecordAudit,
         RequestFails, OpenSession, Rotate, Revoke, CommitPassword, Arrive, Answer, Conclude, Goto
    <3>3. pc'[r] \in {"rotate", "revoke"} => held'[r] \in stored
      BY <1>1 DEF TypeOK, PhaseInv, Quiet, Effect, LoginGuard, LoginFind, CountFailure, ClearFailures,
         RevokeOld, RefreshFind, ReuseDetected, LogoutFind, ChangeFind, SetPassword, RecordAudit,
         RequestFails, OpenSession, Rotate, Revoke, CommitPassword, Arrive, Answer, Conclude, Goto
    <3>4. snap'[r] \subseteq stored
      BY <1>1 DEF TypeOK, PhaseInv, Quiet, Effect, LoginGuard, LoginFind, CountFailure, ClearFailures,
         RevokeOld, RefreshFind, ReuseDetected, LogoutFind, ChangeFind, SetPassword, RecordAudit,
         RequestFails, OpenSession, Rotate, Revoke, CommitPassword, Active
    <3> QED
      BY <2>1, <2>3, <3>1, <3>2, <3>3, <3>4
  <2> QED
    BY <2>2, <2>3
<1>2. CASE LockRunsOut \/ (\E t \in Tokens : TokenExpires(t)) \/ UNCHANGED vars
  BY <1>2 DEF LockRunsOut, TokenExpires, vars, tokenVars, PhaseInv
<1> QED
  BY <1>1, <1>2, Cases DEF PhaseInv

-----------------------------------------------------------------------------
(* Chains. *)

LEMMA ChainStep == IInv /\ [Next]_vars => ChainInv'
<1> SUFFICES ASSUME IInv, [Next]_vars PROVE ChainInv'
  OBVIOUS
<1> USE DEF IInv
<1>1. ASSUME NEW r \in Requests, Quiet(r) PROVE ChainInv'
  BY <1>1, QuietLeaves DEF tokenVars, ChainInv, ChainNeverForks
<1>2. ASSUME NEW r \in Requests, OpenSession(r) PROVE ChainInv'
  <2>1. r \in Tokens /\ r \notin stored
    BY <1>2 DEF OpenSession, PhaseInv, Tokens
  <2> QED
    BY <1>2, <2>1 DEF OpenSession, TypeOK, ChainInv, ChainNeverForks
<1>3. ASSUME NEW r \in Requests, Rotate(r) PROVE ChainInv'
  <2>1. r \in Tokens /\ r \notin stored /\ held[r] \in stored /\ r # None
    BY <1>3, NoneAssumption DEF Rotate, PhaseInv, Tokens
  <2>2. /\ root'[r] = root[held[r]] /\ \A t \in stored : root'[t] = root[t]
        /\ replacedBy'[held[r]] # None /\ held[r] \in revoked'
        /\ \A t \in Tokens : t # held[r] => replacedBy'[t] = replacedBy[t]
    BY <1>3, <2>1 DEF Rotate, TypeOK
  <2>3. ChainNeverForks'
    <3> SUFFICES ASSUME NEW t \in stored', NEW u \in stored', root'[t] = root'[u],
                        replacedBy'[t] = None, replacedBy'[u] = None
                 PROVE  t = u
      BY DEF ChainNeverForks
    <3>1. t # held[r] /\ u # held[r]
      BY <2>2
    <3>2. \A v \in stored : v # held[r] /\ root[v] = root[held[r]] => replacedBy[v] # None
      BY <1>3, <2>1 DEF Rotate, Rotatable, ChainInv, ChainNeverForks
    <3> QED
      BY <1>3, <2>1, <2>2, <3>1, <3>2 DEF Rotate, ChainInv, ChainNeverForks, TypeOK
  <2> QED
    BY <1>3, <2>1, <2>2, <2>3 DEF Rotate, ChainInv, TypeOK
<1>4. ASSUME NEW r \in Requests, Revoke(r) \/ CommitPassword(r) PROVE ChainInv'
  BY <1>4 DEF Revoke, CommitPassword, ChainInv, ChainNeverForks
<1>5. CASE LockRunsOut \/ (\E t \in Tokens : TokenExpires(t)) \/ UNCHANGED vars
  BY <1>5 DEF LockRunsOut, TokenExpires, vars, tokenVars, ChainInv, ChainNeverForks
<1> QED
  BY <1>1, <1>2, <1>3, <1>4, <1>5, Cases DEF Effect

-----------------------------------------------------------------------------
(* Revoking statements and what they have not seen. *)

LEMMA WindowStep == IInv /\ [Next]_vars => WindowInv'
<1> SUFFICES ASSUME IInv, [Next]_vars PROVE WindowInv'
  OBVIOUS
<1> USE DEF IInv
<1>1. ASSUME NEW r \in Requests, Quiet(r) PROVE WindowInv'
  <2> SUFFICES ASSUME NEW q \in Revoking', NEW t \in Live' PROVE t \in snap'[q] \/ q \in window'[t]
    BY DEF WindowInv
  <2>1. t \in Live /\ Live \subseteq Active /\ window' = window
    BY <1>1, QuietLeaves DEF tokenVars, Live, Active
  <2>2. q \in Requests /\ ((q \in Revoking /\ snap'[q] = snap[q]) \/ snap'[q] = Active)
    <3>1. CASE q = r
      BY <1>1, <3>1, MovesItself DEF Moves, Goto, TypeOK, Revoking
    <3>2. CASE q # r
      BY <1>1, <3>2, MovesItself DEF Moves, Goto, TypeOK, Revoking
    <3> QED
      BY <3>1, <3>2
  <2> QED
    BY <2>1, <2>2 DEF WindowInv
<1>2. ASSUME NEW r \in Requests, Effect(r) PROVE WindowInv'
  <2> SUFFICES ASSUME NEW q \in Revoking', NEW t \in Live' PROVE t \in snap'[q] \/ q \in window'[t]
    BY DEF WindowInv
  <2>1. q \in Revoking /\ q # r /\ snap'[q] = snap[q]
    <3>1. pc'[r] = "audit" /\ q # r
      BY <1>2 DEF TypeOK, Revoking, Effect, OpenSession, Rotate, Revoke, CommitPassword, Conclude, Goto
    <3> QED
      BY <1>2, <3>1, MovesItself DEF Moves, Goto, TypeOK, Revoking
  <2>2. CASE t = r /\ r \notin stored
    <3>1. OpenSession(r) \/ Rotate(r)
      BY <1>2, <2>2 DEF Effect, Revoke, CommitPassword, Live, Active
    <3> QED
      BY <2>1, <2>2, <3>1 DEF OpenSession, Rotate, TypeOK, Tokens
  <2>3. CASE t # r \/ r \in stored
    <3>1. t \in Live /\ window'[t] = window[t]
      BY <1>2, <2>3 DEF Effect, OpenSession, Rotate, Revoke, CommitPassword, Live, Active, TypeOK, PhaseInv
    <3> QED
      BY <2>1, <3>1 DEF WindowInv
  <2> QED
    BY <2>2, <2>3
<1>3. CASE LockRunsOut \/ (\E t \in Tokens : TokenExpires(t)) \/ UNCHANGED vars
  BY <1>3 DEF LockRunsOut, TokenExpires, vars, tokenVars, WindowInv, Live, Active, Revoking
<1> QED
  BY <1>1, <1>2, <1>3, Cases

-----------------------------------------------------------------------------
(* Passwords. *)

LEMMA QuietKnows ==
  ASSUME IInv, NEW r \in Requests, Quiet(r)
  PROVE  /\ \A q \in Tokens : knows'[q] = knows[q] \/ (q = r /\ pc[r] = "find")
         /\ \A q \in LetIn' : q \in LetIn \/ knows'[q] = password
         /\ \A q \in Requests : op[q] = "change" => op'[q] = "change"
<1> USE DEF IInv, TypeOK, PhaseInv, Tokens
<1>1. CASE LoginGuard(r) \/ LoginFind(r) \/ CountFailure(r) \/ ClearFailures(r) \/ RevokeOld(r)
  BY <1>1 DEF LoginGuard, LoginFind, CountFailure, ClearFailures, RevokeOld, Arrive, Answer,
     Conclude, Goto, LetIn, loginVars
<1>2. CASE RefreshFind(r) \/ ReuseDetected(r) \/ LogoutFind(r) \/ ChangeFind(r) \/ SetPassword(r)
  BY <1>2 DEF RefreshFind, ReuseDetected, LogoutFind, ChangeFind, SetPassword, Arrive, Answer,
     Goto, LetIn, loginVars
<1>3. CASE RecordAudit(r) \/ RequestFails(r)
  BY <1>3 DEF RecordAudit, RequestFails, Answer, Goto, LetIn, loginVars
<1> QED
  BY <1>1, <1>2, <1>3 DEF Quiet

LEMMA EffectLeaves ==
  ASSUME TypeOK, NEW r \in Requests, Effect(r)
  PROVE  knows' = knows /\ op' = op /\ LetIn' = LetIn \ {r}
<1>1. knows' = knows /\ op' = op /\ pc' = [pc EXCEPT ![r] = "audit"]
  BY DEF Effect, OpenSession, Rotate, Revoke, CommitPassword, Conclude, Goto, loginVars
<1> QED
  BY <1>1 DEF LetIn, TypeOK

LEMMA PasswordStep == IInv /\ [Next]_vars => PasswordInv' /\ OldSessionsOverlapped'
<1> SUFFICES ASSUME IInv, [Next]_vars PROVE PasswordInv' /\ OldSessionsOverlapped'
  OBVIOUS
<1> USE DEF IInv
<1>1. ASSUME NEW r \in Requests, Quiet(r) PROVE PasswordInv' /\ OldSessionsOverlapped'
  <2>1. UNCHANGED <<password, crossed, root, window>> /\ Live' = Live
    BY <1>1, QuietLeaves DEF tokenVars, Live, Active
  <2>2. PasswordInv'
    <3> SUFFICES ASSUME NEW q \in LetIn', knows'[q] # password'
                 PROVE  \E c \in crossed'[q] : op'[c] = "change"
      BY DEF PasswordInv
    <3>1. q \in LetIn /\ q \in Requests /\ q \in Tokens /\ knows'[q] = knows[q]
      BY <1>1, <2>1, QuietKnows DEF LetIn, Tokens
    <3>2. PICK c \in crossed[q] : op[c] = "change"
      BY <2>1, <3>1 DEF PasswordInv
    <3> QED
      BY <1>1, <2>1, <3>1, <3>2, QuietKnows DEF TypeOK
  <2>3. OldSessionsOverlapped'
    <3> SUFFICES ASSUME NEW t \in Live, knows'[root[t]] # password
                 PROVE  \E c \in window[t] \cup crossed[root[t]] : op'[c] = "change"
      BY <2>1 DEF OldSessionsOverlapped
    <3>1. t \in Tokens /\ root[t] \in stored /\ root[t] \in Tokens
      BY DEF Live, Active, ChainInv, TypeOK
    <3>2. knows'[root[t]] = knows[root[t]]
      BY <1>1, <3>1, QuietKnows DEF PhaseInv
    <3>3. PICK c \in window[t] \cup crossed[root[t]] : op[c] = "change"
      BY <3>2 DEF OldSessionsOverlapped
    <3> QED
      BY <1>1, <3>1, <3>3, QuietKnows DEF TypeOK
  <2> QED
    BY <2>2, <2>3
<1>2. ASSUME NEW r \in Requests, OpenSession(r) PROVE PasswordInv' /\ OldSessionsOverlapped'
  <2>1. knows' = knows /\ op' = op /\ LetIn' = LetIn \ {r} /\ UNCHANGED <<password, crossed>>
    BY <1>2, EffectLeaves DEF Effect, OpenSession, customerVars, loginVars
  <2>2. r \in LetIn /\ r \notin stored /\ r \in Tokens /\ root'[r] = r
    BY <1>2 DEF OpenSession, LetIn, PhaseInv, Tokens, TypeOK
  <2>3. \A t \in Live' : t = r \/ (t \in Live /\ root'[t] = root[t] /\ window'[t] = window[t])
    BY <1>2 DEF OpenSession, Live, Active, TypeOK
  <2> QED
    BY <2>1, <2>2, <2>3 DEF PasswordInv, OldSessionsOverlapped
<1>3. ASSUME NEW r \in Requests, Rotate(r) PROVE PasswordInv' /\ OldSessionsOverlapped'
  <2>1. knows' = knows /\ op' = op /\ LetIn' = LetIn \ {r} /\ UNCHANGED <<password, crossed>>
    BY <1>3, EffectLeaves DEF Effect, Rotate, customerVars, loginVars
  <2>2. /\ held[r] \in Live /\ root'[r] = root[held[r]] /\ window[held[r]] \subseteq window'[r]
    BY <1>3 DEF Rotate, Rotatable, Live, Active, PhaseInv, Tokens, TypeOK
  <2>3. \A t \in Live' : t = r \/ (t \in Live /\ root'[t] = root[t] /\ window'[t] = window[t])
    BY <1>3 DEF Rotate, Live, Active, TypeOK
  <2> QED
    BY <2>1, <2>2, <2>3 DEF PasswordInv, OldSessionsOverlapped
<1>4. ASSUME NEW r \in Requests, Revoke(r) PROVE PasswordInv' /\ OldSessionsOverlapped'
  <2>1. knows' = knows /\ op' = op /\ LetIn' = LetIn \ {r}
    BY <1>4, EffectLeaves DEF Effect
  <2> QED
    BY <1>4, <2>1 DEF Revoke, Live, Active, PasswordInv, OldSessionsOverlapped, customerVars, loginVars
<1>5. ASSUME NEW r \in Requests, CommitPassword(r) PROVE PasswordInv' /\ OldSessionsOverlapped'
  <2>1. knows' = knows /\ op' = op /\ LetIn' = LetIn \ {r} /\ op[r] = "change" /\ r \in Revoking
    BY <1>5, EffectLeaves DEF Effect, CommitPassword, PhaseInv, Revoking
  <2>2. \A q \in LetIn : r \in crossed'[q]
    BY <1>5 DEF CommitPassword, LetIn, Tokens
  <2>3. Live' \subseteq Live /\ \A t \in Live' : r \in window'[t]
    BY <1>5, <2>1 DEF CommitPassword, Live, Active, WindowInv
  <2> QED
    BY <2>1, <2>2, <2>3 DEF PasswordInv, OldSessionsOverlapped
<1>6. CASE LockRunsOut \/ (\E t \in Tokens : TokenExpires(t)) \/ UNCHANGED vars
  BY <1>6 DEF LockRunsOut, TokenExpires, vars, customerVars, tokenVars, loginVars, Live, Active, LetIn,
     PasswordInv, OldSessionsOverlapped
<1> QED
  BY <1>1, <1>2, <1>3, <1>4, <1>5, <1>6, Cases DEF Effect

-----------------------------------------------------------------------------
(* Two sessions. *)

LEMMA TwoSessionsStep == IInv /\ [Next]_vars => TwoSessionsOverlapped'
<1> SUFFICES ASSUME IInv, [Next]_vars PROVE TwoSessionsOverlapped'
  OBVIOUS
<1> USE DEF IInv
<1>1. ASSUME NEW r \in Requests, Quiet(r) PROVE TwoSessionsOverlapped'
  BY <1>1, QuietLeaves DEF tokenVars, Live, Active, TwoSessionsOverlapped
<1>2. ASSUME NEW r \in Requests, OpenSession(r) PROVE TwoSessionsOverlapped'
  <2>1. r \in Revoking /\ r \notin stored /\ r \in Tokens /\ root'[r] = r
    BY <1>2 DEF OpenSession, Revoking, PhaseInv, Tokens, TypeOK
  <2>2. \A t \in Live' \ {r} :
          /\ t \in Live /\ root'[t] = root[t] /\ window'[t] = window[t]
          /\ root[t] \in stored /\ r \in window[t]
    BY <1>2, <2>1 DEF OpenSession, Live, Active, TypeOK, ChainInv, WindowInv
  <2> QED
    BY <2>1, <2>2 DEF TwoSessionsOverlapped
<1>3. ASSUME NEW r \in Requests, Rotate(r) PROVE TwoSessionsOverlapped'
  <2>1. held[r] \in Live /\ root'[r] = root[held[r]] /\ window[held[r]] \subseteq window'[r]
    BY <1>3 DEF Rotate, Rotatable, Live, Active, PhaseInv, Tokens, TypeOK
  <2>2. \A t \in Live' \ {r} :
          t \in Live /\ t # held[r] /\ root'[t] = root[t] /\ window'[t] = window[t]
    BY <1>3 DEF Rotate, Live, Active, TypeOK
  <2> QED
    BY <2>1, <2>2 DEF TwoSessionsOverlapped
<1>4. ASSUME NEW r \in Requests, Revoke(r) \/ CommitPassword(r) PROVE TwoSessionsOverlapped'
  BY <1>4 DEF Revoke, CommitPassword, Live, Active, TwoSessionsOverlapped
<1>5. CASE LockRunsOut \/ (\E t \in Tokens : TokenExpires(t)) \/ UNCHANGED vars
  BY <1>5 DEF LockRunsOut, TokenExpires, vars, tokenVars, Live, Active, TwoSessionsOverlapped
<1> QED
  BY <1>1, <1>2, <1>3, <1>4, <1>5, Cases DEF Effect

-----------------------------------------------------------------------------
(* The lock. *)

\* Whatever leaves the lock in place lets nobody past the lock check.
LEMMA UnderLock ==
  ASSUME IInv, lockUntil = "future", NEW r \in Requests, Quiet(r) \/ Effect(r)
  PROVE  \/ CountFailure(r) \/ ClearFailures(r)
         \/ UNCHANGED <<failed, lockUntil, early>> /\ PastLockCheck' \subseteq PastLockCheck
<1> USE DEF IInv, TypeOK, PastLockCheck, customerVars, loginVars
<1>1. CASE LoginGuard(r) \/ LoginFind(r) \/ RevokeOld(r)
  BY <1>1 DEF LoginGuard, LoginFind, RevokeOld, Arrive, Answer, Goto
<1>2. CASE RefreshFind(r) \/ ReuseDetected(r) \/ LogoutFind(r) \/ ChangeFind(r) \/ SetPassword(r)
  BY <1>2 DEF RefreshFind, ReuseDetected, LogoutFind, ChangeFind, SetPassword, Arrive, Answer, Goto
<1>3. CASE RecordAudit(r) \/ RequestFails(r) \/ Effect(r)
  BY <1>3 DEF RecordAudit, RequestFails, Effect, OpenSession, Rotate, Revoke, CommitPassword,
     Answer, Conclude, Goto
<1> QED
  BY <1>1, <1>2, <1>3 DEF Quiet

\* Whatever takes no lock leaves none.
LEMMA LocksOnly ==
  ASSUME NEW r \in Requests, Quiet(r) \/ Effect(r), lockUntil # "future"
  PROVE  CountFailure(r) \/ lockUntil' # "future"
  BY DEF Quiet, Effect, LoginGuard, LoginFind, ClearFailures, RevokeOld, RefreshFind, ReuseDetected,
     LogoutFind, ChangeFind, SetPassword, RecordAudit, RequestFails, OpenSession, Rotate, Revoke,
     CommitPassword, customerVars

LEMMA CountFailureLocks ==
  ASSUME IInv, NEW r \in Requests, CountFailure(r)
  PROVE  LockInv'
<1>1. PastLockCheck' \subseteq PastLockCheck
  BY DEF IInv, TypeOK, CountFailure, Conclude, Goto, PastLockCheck
<1> QED
  BY <1>1, ThresholdAssumption DEF IInv, TypeOK, CountFailure, LocksAt, LockInv

LEMMA LockStep == IInv /\ [Next]_vars => LockInv'
<1> SUFFICES ASSUME IInv, [Next]_vars PROVE LockInv'
  OBVIOUS
<1>1. ASSUME NEW r \in Requests, Quiet(r) \/ Effect(r) PROVE LockInv'
  <2>1. CASE CountFailure(r)
    BY <2>1, CountFailureLocks
  <2>2. CASE lockUntil = "future" /\ ~CountFailure(r)
    BY <1>1, <2>2, UnderLock DEF IInv, LockInv, ClearFailures
  <2>3. CASE lockUntil # "future" /\ ~CountFailure(r)
    BY <1>1, <2>3, LocksOnly DEF LockInv
  <2> QED
    BY <2>1, <2>2, <2>3
<1>2. CASE LockRunsOut \/ (\E t \in Tokens : TokenExpires(t)) \/ UNCHANGED vars
  BY <1>2 DEF LockRunsOut, TokenExpires, vars, customerVars, loginVars, IInv, LockInv, PastLockCheck
<1> QED
  BY <1>1, <1>2, Cases

-----------------------------------------------------------------------------
(* The theorems. *)

\* Whatever requests of a customer meet: the inductive invariant behind login, refresh, logout and
\* patchPassword.
THEOREM Invariance == Spec => []IInv
<1>1. IInv /\ [Next]_vars => IInv'
  BY TypeStep, PhaseStep, ChainStep, WindowStep, PasswordStep, LockStep, TwoSessionsStep DEF IInv
<1> QED
  BY <1>1, InitIInv, PTL DEF Spec

\* Type correctness.
THEOREM TypeCorrect == Spec => []TypeOK
<1>1. IInv => TypeOK
  BY DEF IInv
<1> QED
  BY <1>1, Invariance, PTL

\* However many logins and refreshes run at once: login revokes every session it does not overlap,
\* and no refresh brings one back.
THEOREM SessionsEndAtLogin == Spec => []TwoSessionsOverlapped
<1>1. IInv => TwoSessionsOverlapped
  BY DEF IInv
<1> QED
  BY <1>1, Invariance, PTL

\* patchPassword ends every session of an old password but those whose login or refresh it overlaps.
THEOREM SessionsEndAtChange == Spec => []OldSessionsOverlapped
<1>1. IInv => OldSessionsOverlapped
  BY DEF IInv
<1> QED
  BY <1>1, Invariance, PTL

\* The guarded update of refresh lets one request at most rotate a token.
THEOREM OneSuccessor == Spec => []ChainNeverForks
<1>1. IInv => ChainNeverForks
  BY DEF IInv, ChainInv
<1> QED
  BY <1>1, Invariance, PTL

\* What login, logout or patchPassword has revoked no refresh in flight brings back to life.
THEOREM RevocationIsFinal == Spec => RevokedForGood
<1>1. IInv /\ [Next]_vars => [\A t \in revoked : t \in revoked' /\ replacedBy'[t] = replacedBy[t]]_vars
  <2> SUFFICES ASSUME IInv, [Next]_vars, NEW t \in revoked
               PROVE  t \in revoked' /\ replacedBy'[t] = replacedBy[t]
    OBVIOUS
  <2>1. ASSUME NEW r \in Requests, Quiet(r) PROVE t \in revoked' /\ replacedBy'[t] = replacedBy[t]
    BY <2>1, QuietLeaves DEF tokenVars
  <2>2. ASSUME NEW r \in Requests, Effect(r) PROVE t \in revoked' /\ replacedBy'[t] = replacedBy[t]
    BY <2>2 DEF IInv, TypeOK, Effect, OpenSession, Rotate, Rotatable, Revoke, CommitPassword
  <2>3. CASE LockRunsOut \/ (\E u \in Tokens : TokenExpires(u)) \/ UNCHANGED vars
    BY <2>3 DEF LockRunsOut, TokenExpires, vars, tokenVars
  <2> QED
    BY <2>1, <2>2, <2>3, Cases
<1> QED
  BY <1>1, Invariance, PTL DEF Spec, RevokedForGood

\* Under a lock neither wrong passwords nor logins that began under it lift it, only logins that had
\* read the customer before.
THEOREM LockHolds == Spec => LockLiftedOnlyByEarlier
<1>1. IInv /\ [Next]_vars => [lockUntil = "future" /\ lockUntil' = "none" =>
        \E r \in early : pc[r] = "reset" /\ pc'[r] = "revokeOld"]_vars
  <2> SUFFICES ASSUME IInv, [Next]_vars, lockUntil = "future", lockUntil' = "none"
               PROVE  \E r \in early : pc[r] = "reset" /\ pc'[r] = "revokeOld"
    OBVIOUS
  <2>1. ASSUME NEW r \in Requests, Quiet(r) \/ Effect(r)
        PROVE  r \in early /\ pc[r] = "reset" /\ pc'[r] = "revokeOld"
    <3>1. ClearFailures(r)
      BY <2>1, UnderLock, ThresholdAssumption DEF IInv, TypeOK, LockInv, CountFailure, LocksAt
    <3> QED
      BY <3>1 DEF ClearFailures, Goto, IInv, TypeOK, LockInv, PastLockCheck
  <2>2. CASE LockRunsOut \/ (\E t \in Tokens : TokenExpires(t)) \/ UNCHANGED vars
    BY <2>2 DEF LockRunsOut, TokenExpires, vars, customerVars
  <2> QED
    BY <2>1, <2>2, Cases
<1> QED
  BY <1>1, Invariance, PTL DEF Spec, LockLiftedOnlyByEarlier
=============================================================================
