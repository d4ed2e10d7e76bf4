------------------------------ MODULE AuthService ------------------------------
(***************************************************************************)
(* Supervisor sessions (AuthService.ts): one stored session with a time of *)
(* expiry, deleted when it is read after that time, on a device whose      *)
(* clock may be set back and whose process may die.  Every operation is    *)
(* synchronous and writes one key, so each is one step.                    *)
(***************************************************************************)
EXTENDS Integers

CONSTANTS
  Pin,                  \* what can be typed
  Supervisor,
  DEFAULT_SUPERVISORS,  \* supervisor -> PIN
  SESSION_DURATION_MS,
  MaxTime,              \* bound: the last tick of the device clock
  MaxSessions           \* bound: how many sessions are ever stored

ASSUME AuthAssumption ==
  /\ DEFAULT_SUPERVISORS \in [Supervisor -> Pin]
  /\ SESSION_DURATION_MS \in Nat
  /\ MaxTime \in Nat
  /\ MaxSessions \in Nat

VARIABLES
  up,                   \* the app process is alive
  clock,                \* Date.now()
  supervisors,          \* auth_supervisor_pins
  session,              \* auth_session
  answer,               \* history: the session that getSession last returned
  issued,               \* history: how many sessions were ever stored
  ended                 \* history: the sessions that were found expired or logged out

stored == <<supervisors, session>>
authVars == <<up, clock, stored, answer, issued, ended>>

Time == 0 .. MaxTime

\* "nr" tells sessions apart that were stored at the same tick.
SessionState ==
  [nr : 1 .. MaxSessions, supervisor_id : Supervisor,
   expires_at : 0 .. MaxTime + SESSION_DURATION_MS]

\* A key holds a value or is not there.
Absent == {}

AuthInit ==
  /\ up = FALSE
  /\ clock \in Time
  /\ supervisors = Absent
  /\ session = Absent
  /\ answer = Absent
  /\ issued = 0
  /\ ended = {}

\* The constructor runs when the module is loaded.
LoadAuth ==
  /\ ~up
  /\ up' = TRUE
  /\ supervisors' = IF supervisors = Absent THEN {DEFAULT_SUPERVISORS} ELSE supervisors
  /\ UNCHANGED <<clock, session, answer, issued, ended>>

\* Mutant: the new session is stored beside the old one.
AuthenticateAdds(pin) ==
  /\ up
  /\ issued < MaxSessions
  /\ \E s \in Supervisor :
       /\ \E list \in supervisors : list[s] = pin
       /\ session' = session \cup {[nr |-> issued + 1, supervisor_id |-> s,
                                    expires_at |-> clock + SESSION_DURATION_MS]}
  /\ issued' = issued + 1
  /\ UNCHANGED <<up, clock, supervisors, answer, ended>>

\* A wrong PIN changes nothing; find takes the first supervisor that matches.
Authenticate(pin) ==
  /\ up
  /\ issued < MaxSessions
  /\ \E s \in Supervisor :
       /\ \E list \in supervisors : list[s] = pin
       /\ session' = {[nr |-> issued + 1, supervisor_id |-> s,
                       expires_at |-> clock + SESSION_DURATION_MS]}
  /\ issued' = issued + 1
  /\ UNCHANGED <<up, clock, supervisors, answer, ended>>

\* logout, also called by getSession.
Delete ==
  /\ session' = Absent
  /\ ended' = ended \cup {s.nr : s \in session}

Expired == \E s \in session : clock > s.expires_at

\* Mutant: an expired session is refused but stays stored.
RefuseExpired ==
  /\ up
  /\ IF Expired
     THEN answer' = Absent /\ ended' = ended \cup {s.nr : s \in session} /\ UNCHANGED session
     ELSE answer' = session /\ UNCHANGED <<session, ended>>
  /\ UNCHANGED <<up, clock, supervisors, issued>>

\* getSession; isAuthenticated and getSupervisorId read it the same way.
GetSession ==
  /\ up
  /\ IF Expired
     THEN Delete /\ answer' = Absent
     ELSE answer' = session /\ UNCHANGED <<session, ended>>
  /\ UNCHANGED <<up, clock, supervisors, issued>>

Logout ==
  /\ up
  /\ Delete
  /\ UNCHANGED <<up, clock, supervisors, answer, issued>>

\* Time passes, or the clock is set.
ClockMoves ==
  /\ clock' \in Time
  /\ UNCHANGED <<up, stored, answer, issued, ended>>

\* The process dies; the stored keys survive.
Crash ==
  /\ up
  /\ up' = FALSE
  /\ answer' = Absent
  /\ UNCHANGED <<clock, stored, issued, ended>>

AuthNext ==
  \/ LoadAuth \/ GetSession \/ Logout \/ ClockMoves \/ Crash
  \/ \E pin \in Pin : Authenticate(pin)

AuthSpec == AuthInit /\ [][AuthNext]_authVars

-------------------------------------------------------------------------------
(* Properties.                                                             *)

\* Type invariant: at most one session is stored, the last one issued.
AuthTypeOK ==
  /\ up \in BOOLEAN
  /\ clock \in Time
  /\ supervisors \subseteq {DEFAULT_SUPERVISORS}
  /\ session \subseteq SessionState /\ \A s, t \in session : s = t
  /\ answer \subseteq SessionState /\ \A s, t \in answer : s = t
  /\ issued \in 0 .. MaxSessions
  /\ ended \subseteq 1 .. issued

\* What getSession answers is the session authenticated last, and never one
\* that an earlier read found expired or that was logged out: setting the
\* clock back, or restarting the app, does not bring it back
\* (AuthService.ts:56-64, "Sessions expire after 8 hours", line 5).
EndedStaysEnded ==
  [][\A s \in answer' : answer' # answer => s.nr = issued /\ s.nr \notin ended]_authVars
===============================================================================
