------------------------------- MODULE AuthProofs -------------------------------
(***************************************************************************)
(* The session theorems, for every set of PINs and supervisors, every      *)
(* duration and every bound.                                               *)
(***************************************************************************)
EXTENDS AuthService, TLAPS

\* The stored session is the last one issued and was not ended: this is what
\* makes EndedStaysEnded inductive.
SessionFresh == \A s \in session : s.nr = issued /\ s.nr \notin ended

AuthInv == AuthTypeOK /\ SessionFresh

LEMMA InitAuth == AuthInit => AuthInv
<1> SUFFICES ASSUME AuthInit
             PROVE  AuthInv
  OBVIOUS
<1> USE DEF AuthInit, Absent
<1>1. AuthTypeOK
  <2>1. up \in BOOLEAN
    OBVIOUS
  <2>2. issued \in 0 .. MaxSessions
    BY AuthAssumption
  <2> QED BY <2>1, <2>2 DEF AuthTypeOK
<1>2. SessionFresh
  BY DEF SessionFresh
<1> QED BY <1>1, <1>2 DEF AuthInv

\* Ending the stored session ends one of those issued.
LEMMA EndedWereIssued ==
  ASSUME AuthInv
  PROVE  {s.nr : s \in session} \subseteq 1 .. issued
<1> SUFFICES ASSUME NEW s \in session
             PROVE  s.nr \in 1 .. issued
  OBVIOUS
<1>1. s \in SessionState
  BY DEF AuthInv, AuthTypeOK, Absent
<1>2. s.nr \in 1 .. MaxSessions /\ s.nr = issued
  BY <1>1 DEF SessionState, AuthInv, SessionFresh
<1> QED BY <1>2, AuthAssumption DEF AuthInv, AuthTypeOK

\* getSession, whichever way it goes, keeps the invariant.
LEMMA GetSessionStep == AuthInv /\ GetSession => AuthInv'
<1> SUFFICES ASSUME AuthInv, GetSession
             PROVE  AuthInv'
  OBVIOUS
<1> USE DEF AuthInv, AuthTypeOK, SessionFresh, Absent
<1>1. CASE Expired
  <2>1. session' = {} /\ answer' = {} /\ ended' = ended \cup {s.nr : s \in session}
    BY <1>1 DEF GetSession, Delete
  <2> QED BY <2>1, EndedWereIssued DEF GetSession
<1>2. CASE ~Expired
  <2>1. answer' = session /\ UNCHANGED <<up, clock, supervisors, issued, session, ended>>
    BY <1>2 DEF GetSession
  <2> QED BY <2>1
<1> QED BY <1>1, <1>2

LEMMA StepAuth == AuthInv /\ [AuthNext]_authVars => AuthInv'
<1> SUFFICES ASSUME AuthInv, [AuthNext]_authVars
             PROVE  AuthInv'
  OBVIOUS
<1> USE DEF AuthInv, AuthTypeOK, SessionFresh, Absent
<1>1. CASE LoadAuth
  BY <1>1 DEF LoadAuth
<1>2. CASE GetSession
  BY <1>2, GetSessionStep
<1>3. CASE Logout
  BY <1>3, EndedWereIssued DEF Logout, Delete
<1>4. CASE ClockMoves
  BY <1>4 DEF ClockMoves, stored
<1>5. CASE Crash
  BY <1>5 DEF Crash, stored
<1>6. ASSUME NEW pin \in Pin, Authenticate(pin)
      PROVE  AuthInv'
  <2>1. PICK s \in Supervisor :
          session' = {[nr |-> issued + 1, supervisor_id |-> s,
                       expires_at |-> clock + SESSION_DURATION_MS]}
    BY <1>6 DEF Authenticate
  <2> DEFINE new == [nr |-> issued + 1, supervisor_id |-> s,
                     expires_at |-> clock + SESSION_DURATION_MS]
  <2>2. issued + 1 \in 1 .. MaxSessions /\ issued + 1 \notin ended
    BY <1>6, AuthAssumption DEF Authenticate
  <2>3. clock + SESSION_DURATION_MS \in 0 .. MaxTime + SESSION_DURATION_MS
    BY AuthAssumption DEF Time
  <2>4. new \in SessionState
    BY <2>2, <2>3 DEF SessionState
  <2> QED BY <1>6, <2>1, <2>2, <2>4, AuthAssumption DEF Authenticate
<1>7. CASE UNCHANGED authVars
  BY <1>7 DEF authVars, stored
<1> QED BY <1>1, <1>2, <1>3, <1>4, <1>5, <1>6, <1>7 DEF AuthNext

-------------------------------------------------------------------------------
\* The stored keys keep their types, and one session at most is stored
\* (AuthService.ts:42-48).
THEOREM AuthTypeCorrect == AuthSpec => []AuthTypeOK
<1>1. AuthInv => AuthTypeOK
  BY DEF AuthInv
<1> QED BY <1>1, InitAuth, StepAuth, PTL DEF AuthSpec

\* A session that a read found expired, or that was logged out, is never
\* answered again, however the clock is set and the app restarted
\* (AuthService.ts:56-64).
THEOREM EndedSessionsStayEnded == AuthSpec => EndedStaysEnded
<1> DEFINE Answered ==
      \A s \in answer' : answer' # answer => s.nr = issued /\ s.nr \notin ended
<1>1. AuthInv /\ [AuthNext]_authVars => [Answered]_authVars
  <2> SUFFICES ASSUME AuthInv, AuthNext
               PROVE  Answered
    OBVIOUS
  <2>1. CASE GetSession
    BY <2>1 DEF GetSession, AuthInv, SessionFresh, Absent
  <2>2. CASE LoadAuth \/ Logout \/ ClockMoves
    BY <2>2 DEF LoadAuth, Logout, ClockMoves
  <2>3. CASE Crash
    BY <2>3 DEF Crash, Absent
  <2>4. CASE \E pin \in Pin : Authenticate(pin)
    BY <2>4 DEF Authenticate
  <2> QED BY <2>1, <2>2, <2>3, <2>4 DEF AuthNext
<1> QED BY <1>1, InitAuth, StepAuth, PTL DEF AuthSpec, EndedStaysEnded
===============================================================================
