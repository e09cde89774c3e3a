--------------------------- MODULE AuthStoreProofs ---------------------------
(***************************************************************************)
(* Proofs about AuthStore, for every set of PINs, users and tokens and     *)
(* every value of the limits and of the bounds.                            *)
(***************************************************************************)
EXTENDS AuthStore, TLAPS

PINOps == {"SetupPIN", "EnablePIN", "ChangePIN", "SetGuestPIN", "RemoveGuestPIN"}

\* The constants and sets the type invariant is made of.
USE DEF PINFile, SessionTable, Session, Roles, OpNames, Idle, NoPINs, NoSessions,
        Ready, IsPINSet, IsGuestPINSet, verifyPIN, Live, MemoryPINs

-----------------------------------------------------------------------------
(* Type correctness                                                        *)

\* The values an empty store starts from.
LEMMA EmptyType ==
  /\ NoSessions \in SessionTable /\ NoPINs \in PINFile
  /\ Idle \in [name : OpNames, tokens : SUBSET Tokens]
  /\ 0 \in 0 .. maxFailedAttempts - 1
  /\ <<>> \in Seq(Nat)
<1>1. NoSessions \in SessionTable /\ NoPINs \in PINFile
  OBVIOUS
<1>2. Idle \in [name : OpNames, tokens : SUBSET Tokens]
  OBVIOUS
<1>3. 0 \in 0 .. maxFailedAttempts - 1
  BY ConstantsAssumption
<1>4. QED
  BY <1>1, <1>2, <1>3

LEMMA InitTypeOK == Init => TypeOK
<1> SUFFICES ASSUME Init PROVE TypeOK
  OBVIOUS
<1>1. /\ sessions \in SessionTable /\ issued \in SessionTable
      /\ pinFile \in PINFile \cup {Torn} /\ sessionsFile \in SessionTable \cup {Torn}
      /\ op \in [name : OpNames, tokens : SUBSET Tokens]
  <2> HIDE DEF NoSessions, NoPINs, Idle, SessionTable, PINFile, OpNames
  <2>1. QED
    BY EmptyType DEF Init
<1>2. failedAttempts \in 0 .. maxFailedAttempts - 1 /\ wrongAt \in Seq(Nat)
  BY EmptyType DEF Init
<1>3. /\ now \in Nat /\ faults \in Nat /\ crashes \in Nat /\ lockedUntil \in Nat
      /\ phase \in {"none", "pin", "sessions"}
  BY DEF Init
<1>4. /\ up \in BOOLEAN /\ pinAcked \in BOOLEAN /\ degraded \in BOOLEAN
      /\ used \subseteq Tokens /\ revoked \subseteq Tokens
      /\ pin \in PINs \cup {NoPIN} /\ guestPin \in PINs \cup {NoPIN}
  BY DEF Init
<1>5. QED
  BY <1>1, <1>2, <1>3, <1>4 DEF TypeOK

\* Dropping tokens from a table, and adding one, give a table.
LEMMA WithoutType ==
  ASSUME NEW table \in SessionTable, NEW S
  PROVE  Without(table, S) \in SessionTable
  BY DEF Without

LEMMA RememberType ==
  ASSUME NEW times \in Seq(Nat), NEW time \in Nat
  PROVE  Remember(times, time) \in Seq(Nat)
<1>1. CASE Len(times) <= maxFailedAttempts
  BY <1>1 DEF Remember
<1>2. CASE ~(Len(times) <= maxFailedAttempts)
  <2>1. times # <<>>
    BY <1>2, ConstantsAssumption
  <2>2. QED
    BY <1>2, <2>1 DEF Remember
<1>3. QED
  BY <1>1, <1>2

LEMMA AddSessionType ==
  ASSUME TypeOK, NEW name \in OpNames, NEW t, NEW role \in Roles,
         NEW user \in Users \cup {NoUser}, AddSession(name, t, role, user)
  PROVE  /\ t \in Tokens
         /\ sessions' \in SessionTable
         /\ used' \subseteq Tokens
         /\ op' \in [name : OpNames, tokens : SUBSET Tokens]
         /\ phase' = "sessions"
  BY ConstantsAssumption DEF AddSession, Start, TypeOK

LEMMA AcknowledgeType ==
  ASSUME TypeOK, Acknowledge
  PROVE  /\ phase' = "none"
         /\ op' \in [name : OpNames, tokens : SUBSET Tokens]
         /\ issued' \in SessionTable
         /\ revoked' \subseteq Tokens
         /\ pinAcked' \in BOOLEAN
  BY DEF Acknowledge, TypeOK

LEMMA NextTypeOK == TypeOK /\ [Next]_vars => TypeOK'
<1> SUFFICES ASSUME TypeOK, [Next]_vars
             PROVE  TypeOK'
  OBVIOUS
<1> USE ConstantsAssumption
<1>1. ASSUME NEW p \in PINs, NEW name \in {"SetupPIN", "EnablePIN"}, SetupPIN(name, p)
      PROVE  TypeOK'
  BY <1>1 DEF SetupPIN, Start, TypeOK, disk, bounds, ghosts
<1>2. ASSUME NEW p \in PINs, NEW q \in PINs, ChangePIN(p, q)
      PROVE  TypeOK'
  BY <1>2 DEF ChangePIN, Start, TypeOK, disk, bounds, ghosts
<1>3. ASSUME NEW p \in PINs, NEW q \in PINs, SetGuestPIN(p, q)
      PROVE  TypeOK'
  BY <1>3 DEF SetGuestPIN, Start, TypeOK, disk, bounds, ghosts
<1>4. ASSUME NEW p \in PINs, RemoveGuestPIN(p)
      PROVE  TypeOK'
  <2>1. sessions' \in SessionTable
    BY <1>4, WithoutType DEF RemoveGuestPIN, TypeOK
  <2>2. QED
    BY <1>4, <2>1 DEF RemoveGuestPIN, GuestTokens, Start, TypeOK, disk, bounds, ghosts
<1>5. ASSUME NEW p \in PINs, NEW t \in Tokens, LoginOK(p, t)
      PROVE  TypeOK'
  <2>1. LoginRole(p) \in Roles
    BY <1>5 DEF LoginOK, LoginRole
  <2>2. AddSession("Login", t, LoginRole(p), NoUser)
    BY <1>5 DEF LoginOK
  <2>3. /\ sessions' \in SessionTable /\ used' \subseteq Tokens
        /\ op' \in [name : OpNames, tokens : SUBSET Tokens] /\ phase' = "sessions"
    BY <2>1, <2>2, AddSessionType
  <2>4. QED
    BY <1>5, <2>3 DEF LoginOK, TypeOK, disk, bounds
<1>6. ASSUME NEW p \in PINs, LoginWrong(p)
      PROVE  TypeOK'
  <2>1. wrongAt' \in Seq(Nat)
    BY <1>6, RememberType DEF LoginWrong, TypeOK
  <2>2. failedAttempts' \in 0 .. maxFailedAttempts - 1 /\ lockedUntil' \in Nat
    BY <1>6 DEF LoginWrong, TypeOK
  <2>3. QED
    BY <1>6, <2>1, <2>2 DEF LoginWrong, TypeOK, disk, mutex, bounds
<1>7. ASSUME NEW u \in Users, NEW t \in Tokens, CreateUserSession(u, t)
      PROVE  TypeOK'
  <2>1. /\ sessions' \in SessionTable /\ used' \subseteq Tokens
        /\ op' \in [name : OpNames, tokens : SUBSET Tokens] /\ phase' = "sessions"
    BY <1>7, AddSessionType DEF CreateUserSession
  <2>2. QED
    BY <1>7, <2>1 DEF CreateUserSession, TypeOK, disk, bounds
<1>8. ASSUME NEW t \in Tokens, Logout(t)
      PROVE  TypeOK'
  <2>1. sessions' \in SessionTable
    BY <1>8, WithoutType DEF Logout, TypeOK
  <2>2. QED
    BY <1>8, <2>1 DEF Logout, Start, TypeOK, disk, bounds, ghosts
<1>9. CASE PruneExpiredSessions
  <2>1. sessions' \in SessionTable
    BY <1>9, WithoutType DEF PruneExpiredSessions, TypeOK
  <2>2. QED
    BY <1>9, <2>1 DEF PruneExpiredSessions, Expired, Start, TypeOK, disk, bounds, ghosts
<1>10. CASE PINWritten
  <2> USE <1>10 DEF PINWritten
  <2>1. pinFile' \in PINFile
    BY DEF TypeOK
  <2>2. CASE op.name \in {"SetupPIN", "EnablePIN"}
    <3>1. PICK t \in Tokens : AddSession(op.name, t, "owner", NoUser)
      BY <2>2
    <3>2. /\ sessions' \in SessionTable /\ used' \subseteq Tokens
          /\ op' \in [name : OpNames, tokens : SUBSET Tokens] /\ phase' = "sessions"
      BY <2>2, <3>1, AddSessionType
    <3>3. QED
      BY <2>1, <2>2, <3>2 DEF TypeOK, bounds
  <2>3. CASE op.name = "RemoveGuestPIN"
    BY <2>1, <2>3 DEF TypeOK, bounds
  <2>4. CASE op.name \in {"ChangePIN", "SetGuestPIN"}
    <3>1. Acknowledge
      BY <2>4
    <3>2. QED
      BY <2>1, <2>4, <3>1, AcknowledgeType DEF TypeOK, bounds
  <2>5. QED
    BY <2>2, <2>3, <2>4
<1>11. CASE SessionsWritten
  <2>1. Acknowledge
    BY <1>11 DEF SessionsWritten
  <2>2. QED
    BY <1>11, <2>1, AcknowledgeType DEF SessionsWritten, TypeOK, memory, bounds
<1>12. CASE WriteFails
  <2>1. /\ pinFile' \in PINFile \cup {Torn}
        /\ sessionsFile' \in SessionTable \cup {Torn}
    BY <1>12 DEF WriteFails, InterruptedPINFile, InterruptedSessionsFile, TypeOK
  <2>2. QED
    BY <1>12, <2>1 DEF WriteFails, TypeOK, memory
<1>13. CASE Crash
  <2>1. /\ pinFile' \in PINFile \cup {Torn}
        /\ sessionsFile' \in SessionTable \cup {Torn}
    BY <1>13 DEF Crash, InterruptedPINFile, InterruptedSessionsFile, TypeOK
  <2>2. degraded' \in BOOLEAN
    BY <1>13 DEF Crash, TypeOK
  <2>3. crashes' \in Nat
    BY <1>13 DEF Crash, TypeOK
  <2>4. QED
    BY <1>13, <2>1, <2>2, <2>3, EmptyType DEF Crash, TypeOK
<1>14. CASE Restart
  BY <1>14 DEF Restart, TypeOK, disk, mutex, bounds, ghosts
<1>15. CASE Tick
  BY <1>15 DEF Tick, TypeOK, memory, disk, mutex, bounds, ghosts
<1>16. CASE UNCHANGED vars
  BY <1>16 DEF vars, TypeOK, memory, disk, mutex, bounds, ghosts
<1>17. QED
  BY <1>1, <1>2, <1>3, <1>4, <1>5, <1>6, <1>7, <1>8, <1>9, <1>10, <1>11, <1>12,
     <1>13, <1>14, <1>15, <1>16 DEF Next, Request

\* Every reachable state of the store is well typed; in particular the counter
\* of failed attempts never reaches the limit it is compared with.
THEOREM TypeCorrect == Spec => []TypeOK
  BY InitTypeOK, NextTypeOK, PTL DEF Spec

-----------------------------------------------------------------------------
(* Revoked tokens                                                          *)

\* Neither the server nor the file it would restart from knows the token.
Gone(t) ==
    /\ sessions[t] = NoSession
    /\ sessionsFile # Torn => sessionsFile[t] = NoSession

\* A token is Gone before it is drawn and after its removal is reported; while
\* a removal is being written its tokens are already out of memory, so the file
\* that completes it cannot contain them.
RevocationInv ==
    /\ revoked \subseteq used
    /\ \A t \in Tokens : t \notin used \/ t \in revoked => Gone(t)
    /\ op.name \in {"Logout", "RemoveGuestPIN"} =>
         op.tokens \subseteq used /\ \A t \in op.tokens : ~Live(t)
    /\ ~up => op = Idle

LEMMA InitRevocation == Init => RevocationInv
  BY DEF Init, RevocationInv, Gone

\* A new session uses a token nobody revoked.
LEMMA AddSessionRevocation ==
  ASSUME TypeOK, RevocationInv, NEW name \in OpNames \ {"Logout", "RemoveGuestPIN"},
         NEW t, NEW role, NEW user, AddSession(name, t, role, user),
         up, UNCHANGED <<up, sessionsFile, revoked>>
  PROVE  RevocationInv'
<1>1. /\ t \in Tokens \ used /\ used' = used \cup {t} /\ op'.name = name
      /\ \A u \in Tokens : u # t => sessions'[u] = sessions[u]
  BY DEF AddSession, Start, TypeOK
<1>2. QED
  BY <1>1 DEF RevocationInv, Gone, TypeOK

\* Shrinking the table keeps the invariant, whatever operation does it, if the
\* operation is about the tokens it takes out.
LEMMA RemovalRevocation ==
  ASSUME TypeOK, RevocationInv, NEW name, NEW S \in SUBSET used,
         sessions' = Without(sessions, S),
         op' = [name |-> name, tokens |-> S],
         up, UNCHANGED <<up, sessionsFile, revoked, used>>
  PROVE  RevocationInv'
<1>1. \A t \in Tokens : /\ t \in S => sessions'[t] = NoSession
                        /\ t \notin S => sessions'[t] = sessions[t]
  BY DEF Without
<1>2. S \subseteq Tokens
  BY DEF TypeOK
<1>3. QED
  BY <1>1, <1>2 DEF RevocationInv, Gone, TypeOK

LEMMA NextRevocation == TypeOK /\ RevocationInv /\ [Next]_vars => RevocationInv'
<1> SUFFICES ASSUME TypeOK, RevocationInv, [Next]_vars
             PROVE  RevocationInv'
  OBVIOUS
<1>0. \A t \in Tokens : Live(t) => t \in used
  BY DEF RevocationInv, Gone
<1>1. ASSUME NEW p \in PINs, NEW name \in {"SetupPIN", "EnablePIN"}, SetupPIN(name, p)
      PROVE  RevocationInv'
  BY <1>1 DEF SetupPIN, Start, RevocationInv, Gone, disk, ghosts
<1>2. ASSUME NEW p \in PINs, NEW q \in PINs, ChangePIN(p, q)
      PROVE  RevocationInv'
  BY <1>2 DEF ChangePIN, Start, RevocationInv, Gone, disk, ghosts
<1>3. ASSUME NEW p \in PINs, NEW q \in PINs, SetGuestPIN(p, q)
      PROVE  RevocationInv'
  BY <1>3 DEF SetGuestPIN, Start, RevocationInv, Gone, disk, ghosts
<1>4. ASSUME NEW p \in PINs, RemoveGuestPIN(p)
      PROVE  RevocationInv'
  <2>1. GuestTokens \subseteq used
    BY <1>0 DEF GuestTokens
  <2>2. QED
    BY <1>4, <2>1, RemovalRevocation DEF RemoveGuestPIN, Start, disk, ghosts
<1>5. ASSUME NEW p \in PINs, NEW t \in Tokens, LoginOK(p, t)
      PROVE  RevocationInv'
  BY <1>5, AddSessionRevocation DEF LoginOK, disk
<1>6. ASSUME NEW p \in PINs, LoginWrong(p)
      PROVE  RevocationInv'
  BY <1>6 DEF LoginWrong, RevocationInv, Gone, disk, mutex
<1>7. ASSUME NEW u \in Users, NEW t \in Tokens, CreateUserSession(u, t)
      PROVE  RevocationInv'
  BY <1>7, AddSessionRevocation DEF CreateUserSession, disk
<1>8. ASSUME NEW t \in Tokens, Logout(t)
      PROVE  RevocationInv'
  BY <1>8, RemovalRevocation DEF Logout, Start, disk, ghosts
<1>9. CASE PruneExpiredSessions
  <2>1. Expired \subseteq used
    BY <1>0 DEF Expired
  <2>2. QED
    BY <1>9, <2>1, RemovalRevocation DEF PruneExpiredSessions, Start, disk, ghosts
<1>10. CASE PINWritten
  <2> USE <1>10 DEF PINWritten
  <2>1. CASE op.name \in {"SetupPIN", "EnablePIN"}
    BY <2>1, AddSessionRevocation
  <2>2. CASE op.name = "RemoveGuestPIN"
    BY <2>2 DEF RevocationInv, Gone
  <2>3. CASE op.name \in {"ChangePIN", "SetGuestPIN"}
    BY <2>3 DEF Acknowledge, RevocationInv, Gone
  <2>4. QED
    BY <2>1, <2>2, <2>3
<1>11. CASE SessionsWritten
  <2>1. /\ sessions' = sessions /\ sessionsFile' = sessions /\ used' = used
        /\ op' = Idle
        /\ revoked' = IF op.name \in {"Logout", "RemoveGuestPIN"}
                        THEN revoked \cup op.tokens ELSE revoked
    BY <1>11 DEF SessionsWritten, Acknowledge, memory
  <2>2. \A t \in Tokens : t \notin used \/ t \in revoked' => sessions[t] = NoSession
    BY <2>1 DEF RevocationInv, Gone
  <2>3. revoked' \subseteq used'
    BY <2>1 DEF RevocationInv
  <2>4. QED
    BY <2>1, <2>2, <2>3 DEF RevocationInv, Gone
<1>12. CASE WriteFails
  <2>1. /\ UNCHANGED <<sessions, used, revoked>> /\ op' = Idle
        /\ sessionsFile' \in {sessionsFile, NoSessions, Torn}
    BY <1>12 DEF WriteFails, InterruptedSessionsFile, memory
  <2>2. QED
    BY <2>1 DEF RevocationInv, Gone
<1>13. CASE Crash
  <2>1. /\ UNCHANGED <<used, revoked>> /\ op' = Idle /\ sessions' = NoSessions
        /\ sessionsFile' \in {sessionsFile, NoSessions, Torn}
    BY <1>13 DEF Crash, InterruptedSessionsFile
  <2>2. QED
    BY <2>1 DEF RevocationInv, Gone
<1>14. CASE Restart
  <2>1. /\ UNCHANGED <<sessionsFile, op, used, revoked>> /\ sessionsFile # Torn
        /\ \A t \in Tokens : sessionsFile[t] = NoSession => sessions'[t] = NoSession
    BY <1>14 DEF Restart, disk, mutex, ghosts
  <2>2. \A t \in Tokens : Gone(t) => Gone(t)'
    BY <2>1 DEF Gone
  <2>3. op' = Idle
    BY <1>14, <2>1 DEF Restart, RevocationInv
  <2>4. QED
    BY <2>1, <2>2, <2>3 DEF RevocationInv
<1>15. CASE Tick
  BY <1>15 DEF Tick, RevocationInv, Gone, memory, disk, mutex, ghosts
<1>16. CASE UNCHANGED vars
  BY <1>16 DEF vars, RevocationInv, Gone, memory, disk, mutex, ghosts
<1>17. QED
  BY <1>1, <1>2, <1>3, <1>4, <1>5, <1>6, <1>7, <1>8, <1>9, <1>10, <1>11, <1>12,
     <1>13, <1>14, <1>15, <1>16 DEF Next, Request

\* A token whose logout or removal was reported as done is never accepted again,
\* through failed writes, crashes and restarts.
THEOREM RevokedStays == Spec => []RevokedStaysRevoked
<1>1. TypeOK /\ RevocationInv => RevokedStaysRevoked
  BY DEF TypeOK, RevocationInv, Gone, RevokedStaysRevoked, ValidSession
<1>2. QED
  BY <1>1, TypeCorrect, InitRevocation, NextRevocation, PTL DEF Spec

-----------------------------------------------------------------------------
(* The owner PIN                                                           *)

\* An acknowledged PIN is in memory and in any pin.json that can be parsed; an
\* operation that writes pin.json holds a PIN, and one that has just set it up
\* has it on disk before it is acknowledged.
PINInv ==
    /\ pinAcked => (up => IsPINSet) /\ (pinFile # Torn => pinFile.pin # NoPIN)
    /\ phase = "pin" => IsPINSet
    /\ phase = "sessions" /\ op.name \in {"SetupPIN", "EnablePIN"} =>
         IsPINSet /\ pinFile # Torn /\ pinFile.pin # NoPIN
    /\ ~up => phase = "none"

LEMMA NextPIN == TypeOK /\ PINInv /\ [Next]_vars => PINInv'
<1> SUFFICES ASSUME TypeOK, PINInv, [Next]_vars
             PROVE  PINInv'
  OBVIOUS
<1> USE ConstantsAssumption DEF PINInv
<1>1. ASSUME NEW p \in PINs, NEW name \in {"SetupPIN", "EnablePIN"}, SetupPIN(name, p)
      PROVE  PINInv'
  BY <1>1 DEF SetupPIN, Start, disk, ghosts
<1>2. ASSUME NEW p \in PINs, NEW q \in PINs, ChangePIN(p, q)
      PROVE  PINInv'
  BY <1>2 DEF ChangePIN, Start, disk, ghosts
<1>3. ASSUME NEW p \in PINs, NEW q \in PINs, SetGuestPIN(p, q)
      PROVE  PINInv'
  BY <1>3 DEF SetGuestPIN, Start, disk, ghosts
<1>4. ASSUME NEW p \in PINs, RemoveGuestPIN(p)
      PROVE  PINInv'
  BY <1>4 DEF RemoveGuestPIN, Start, disk, ghosts
<1>5. ASSUME NEW p \in PINs, NEW t \in Tokens, LoginOK(p, t)
      PROVE  PINInv'
  BY <1>5 DEF LoginOK, AddSession, Start, disk
<1>6. ASSUME NEW p \in PINs, LoginWrong(p)
      PROVE  PINInv'
  BY <1>6 DEF LoginWrong, disk, mutex
<1>7. ASSUME NEW u \in Users, NEW t \in Tokens, CreateUserSession(u, t)
      PROVE  PINInv'
  BY <1>7 DEF CreateUserSession, AddSession, Start, disk
<1>8. ASSUME NEW t \in Tokens, Logout(t)
      PROVE  PINInv'
  BY <1>8 DEF Logout, Start, disk, ghosts
<1>9. CASE PruneExpiredSessions
  BY <1>9 DEF PruneExpiredSessions, Start, disk, ghosts
<1>10. CASE PINWritten
  <2> USE <1>10 DEF PINWritten
  <2>1. pinFile' \in PINFile /\ pinFile'.pin = pin /\ pin' = pin /\ pin # NoPIN
    BY DEF TypeOK
  <2>2. pinFile' # Torn
    BY <2>1, SentinelsAssumption
  <2>3. phase' # "pin"
    BY DEF AddSession, Start, Acknowledge
  <2>4. QED
    BY <2>1, <2>2, <2>3
<1>11. CASE SessionsWritten
  BY <1>11 DEF SessionsWritten, Acknowledge, memory
<1>12. CASE WriteFails
  <2>1. /\ UNCHANGED <<up, pin, pinAcked>> /\ phase' = "none"
        /\ pinFile' \in {pinFile, Torn}
    BY <1>12 DEF WriteFails, InterruptedPINFile, memory
  <2>2. QED
    BY <2>1
<1>13. CASE Crash
  <2>1. /\ UNCHANGED pinAcked /\ phase' = "none" /\ up' = FALSE
        /\ pinFile' \in {pinFile, Torn}
    BY <1>13 DEF Crash, InterruptedPINFile
  <2>2. QED
    BY <2>1
<1>14. CASE Restart
  BY <1>14 DEF Restart, disk, mutex, ghosts
<1>15. CASE Tick
  BY <1>15 DEF Tick, memory, disk, mutex, ghosts
<1>16. CASE UNCHANGED vars
  BY <1>16 DEF vars, memory, disk, mutex, ghosts
<1>17. QED
  BY <1>1, <1>2, <1>3, <1>4, <1>5, <1>6, <1>7, <1>8, <1>9, <1>10, <1>11, <1>12,
     <1>13, <1>14, <1>15, <1>16 DEF Next, Request

\* Once a client was told that the owner PIN is set, no running server is ever
\* without one.
THEOREM PINIsNeverForgotten == Spec => []PINNeverForgotten
<1>1. Init => PINInv
  BY DEF Init, PINInv
<1>2. PINInv => PINNeverForgotten
  BY DEF PINInv, PINNeverForgotten
<1>3. QED
  BY <1>1, <1>2, TypeCorrect, NextPIN, PTL DEF Spec

-----------------------------------------------------------------------------
(* What a restart gives back, and guests without a guest PIN               *)

\* The file has the token as memory has it, or has it only as expired.
Agrees(t) ==
    \/ sessionsFile[t] = sessions[t]
    \/ /\ ~Live(t) /\ sessionsFile[t] # NoSession
       /\ sessionsFile[t].expires <= now

\* Until a write fails or a crash cuts an operation short: pin.json is memory's
\* unless it is about to be written, sessions.json agrees unless the running
\* operation has just changed the table, and a guest in memory, or one that a
\* restart would bring back, comes with a guest PIN.
DurableInv ==
    /\ ~degraded =>
        /\ pinFile # Torn /\ sessionsFile # Torn
        /\ up /\ phase # "pin" => pinFile = MemoryPINs
        /\ up /\ phase # "sessions" /\ op.name # "RemoveGuestPIN" =>
             \A t \in Tokens : Agrees(t)
        /\ up => (\A t \in GuestTokens : IsGuestPINSet)
        /\ ~up => \A t \in Tokens :
             sessionsFile[t] # NoSession /\ sessionsFile[t].role = "guest"
               /\ sessionsFile[t].expires > now => pinFile.guest # NoPIN
    /\ phase = "none" => op = Idle
    /\ phase = "pin" => op.name \in PINOps
    /\ ~up => phase = "none"

\* Adding a session opens a sessions.json write; it may add a guest only when
\* guest access is on.
LEMMA AddSessionDurable ==
  ASSUME TypeOK, DurableInv, NEW name \in OpNames \ {"RemoveGuestPIN"},
         NEW t, NEW role \in Roles, NEW user, AddSession(name, t, role, user),
         role = "guest" => IsGuestPINSet, up,
         pinFile' = MemoryPINs \/ (phase # "pin" /\ UNCHANGED pinFile),
         UNCHANGED <<up, pin, guestPin, sessionsFile, degraded, now>>
  PROVE  DurableInv'
<1>1. /\ t \in Tokens /\ op'.name = name /\ phase' = "sessions"
      /\ sessions'[t].role = role
      /\ \A u \in Tokens : u # t => sessions'[u] = sessions[u]
  BY DEF AddSession, Start, TypeOK
<1>2. (\A u \in GuestTokens : IsGuestPINSet) => (\A u \in GuestTokens' : IsGuestPINSet')
  BY <1>1 DEF GuestTokens
<1>3. ~degraded => pinFile' = MemoryPINs'
  BY DEF DurableInv
<1>4. pinFile # Torn => pinFile' # Torn
  BY SentinelsAssumption DEF TypeOK
<1>5. QED
  BY <1>1, <1>2, <1>3, <1>4 DEF DurableInv

\* Taking tokens out of memory before writing sessions.json.
LEMMA RemovalDurable ==
  ASSUME TypeOK, DurableInv, NEW S, sessions' = Without(sessions, S),
         up, phase = "none", phase' = "sessions",
         UNCHANGED <<up, pin, guestPin, disk, degraded, now>>
  PROVE  DurableInv'
<1>1. GuestTokens' \subseteq GuestTokens
  BY DEF Without, GuestTokens
<1>2. QED
  BY <1>1 DEF DurableInv, disk

LEMMA NextDurable == TypeOK /\ DurableInv /\ [Next]_vars => DurableInv'
<1> SUFFICES ASSUME TypeOK, DurableInv, [Next]_vars
             PROVE  DurableInv'
  OBVIOUS
<1> USE ConstantsAssumption
<1>1. ASSUME NEW p \in PINs, NEW name \in {"SetupPIN", "EnablePIN"}, SetupPIN(name, p)
      PROVE  DurableInv'
  BY <1>1 DEF SetupPIN, Start, DurableInv, Agrees, GuestTokens, PINOps, disk, ghosts
<1>2. ASSUME NEW p \in PINs, NEW q \in PINs, ChangePIN(p, q)
      PROVE  DurableInv'
  BY <1>2 DEF ChangePIN, Start, DurableInv, Agrees, GuestTokens, PINOps, disk, ghosts
<1>3. ASSUME NEW p \in PINs, NEW q \in PINs, SetGuestPIN(p, q)
      PROVE  DurableInv'
  BY <1>3 DEF SetGuestPIN, Start, DurableInv, Agrees, GuestTokens, PINOps, disk, ghosts
<1>4. ASSUME NEW p \in PINs, RemoveGuestPIN(p)
      PROVE  DurableInv'
  <2>1. GuestTokens' = {}
    BY <1>4 DEF RemoveGuestPIN, Without, GuestTokens
  <2>2. QED
    BY <1>4, <2>1 DEF RemoveGuestPIN, Start, DurableInv, PINOps, disk, ghosts
<1>5. ASSUME NEW p \in PINs, NEW t \in Tokens, LoginOK(p, t)
      PROVE  DurableInv'
  <2>1. LoginRole(p) \in Roles /\ (LoginRole(p) = "guest" => IsGuestPINSet)
    BY <1>5 DEF LoginOK, LoginRole
  <2>2. QED
    BY <1>5, <2>1, AddSessionDurable DEF LoginOK, disk
<1>6. ASSUME NEW p \in PINs, LoginWrong(p)
      PROVE  DurableInv'
  BY <1>6 DEF LoginWrong, DurableInv, Agrees, GuestTokens, disk, mutex
<1>7. ASSUME NEW u \in Users, NEW t \in Tokens, CreateUserSession(u, t)
      PROVE  DurableInv'
  BY <1>7, AddSessionDurable DEF CreateUserSession, disk
<1>8. ASSUME NEW t \in Tokens, Logout(t)
      PROVE  DurableInv'
  BY <1>8, RemovalDurable DEF Logout, Start, ghosts
<1>9. CASE PruneExpiredSessions
  BY <1>9, RemovalDurable DEF PruneExpiredSessions, Start, ghosts
<1>10. CASE PINWritten
  <2> USE <1>10 DEF PINWritten
  <2>1. CASE op.name \in {"SetupPIN", "EnablePIN"}
    BY <2>1, AddSessionDurable
  <2>2. pinFile' = MemoryPINs' /\ pinFile' # Torn
    BY SentinelsAssumption DEF TypeOK
  <2>3. CASE op.name = "RemoveGuestPIN"
    BY <2>2, <2>3 DEF DurableInv, GuestTokens
  <2>4. CASE op.name \in {"ChangePIN", "SetGuestPIN"}
    BY <2>2, <2>4 DEF Acknowledge, DurableInv, Agrees, GuestTokens
  <2>5. QED
    BY <2>1, <2>3, <2>4
<1>11. CASE SessionsWritten
  <2>1. sessionsFile' = sessions' /\ sessionsFile' # Torn
    BY <1>11, SentinelsAssumption DEF SessionsWritten, memory, TypeOK
  <2>2. QED
    BY <1>11, <2>1
       DEF SessionsWritten, Acknowledge, DurableInv, Agrees, GuestTokens, memory
<1>12. CASE WriteFails
  BY <1>12 DEF WriteFails, DurableInv, memory
<1>13. CASE Crash
  <2>1. CASE degraded'
    BY <1>13, <2>1 DEF Crash, DurableInv
  <2>2. CASE ~degraded'
    <3>1. /\ ~degraded /\ phase = "none" /\ op = Idle /\ up
          /\ UNCHANGED <<pinFile, sessionsFile, now>>
          /\ up' = FALSE /\ phase' = "none" /\ op' = Idle
      BY <1>13, <2>2 DEF Crash, DurableInv
    <3>2. ASSUME NEW t \in Tokens, sessionsFile[t] # NoSession,
                 sessionsFile[t].role = "guest", sessionsFile[t].expires > now
          PROVE  pinFile.guest # NoPIN
      <4>1. sessionsFile[t] \in Session
        BY <3>1, <3>2 DEF TypeOK, DurableInv
      <4>2. sessions[t] = sessionsFile[t]
        BY <3>1, <3>2, <4>1 DEF DurableInv, Agrees, TypeOK
      <4>3. QED
        BY <3>1, <3>2, <4>2 DEF DurableInv, GuestTokens
    <3>3. QED
      BY <3>1, <3>2 DEF DurableInv
  <2>3. QED
    BY <2>1, <2>2
<1>14. CASE Restart
  <2> USE <1>14 DEF Restart
  <2>1. CASE degraded'
    BY <2>1 DEF DurableInv, mutex, ghosts
  <2>2. CASE ~degraded'
    <3>1. /\ ~degraded /\ ~up /\ phase' = "none" /\ op' = Idle /\ up'
          /\ UNCHANGED <<pinFile, sessionsFile, now>>
      BY <2>2 DEF DurableInv, disk, mutex, ghosts
    <3>2. pinFile' = MemoryPINs'
      BY <3>1 DEF TypeOK
    <3>3. ASSUME NEW t \in Tokens
          PROVE  Agrees(t)' /\ (t \in GuestTokens' => IsGuestPINSet')
      <4>1. sessionsFile[t] # NoSession => sessionsFile[t] \in Session
        BY DEF TypeOK
      <4>2. CASE sessionsFile[t] # NoSession /\ sessionsFile[t].expires > now
        BY <3>1, <3>3, <4>2 DEF Agrees, GuestTokens, DurableInv
      <4>3. CASE ~(sessionsFile[t] # NoSession /\ sessionsFile[t].expires > now)
        <5>1. sessions'[t] = NoSession
          BY <3>3, <4>3
        <5>2. sessionsFile[t] # NoSession => sessionsFile[t].expires <= now
          BY <4>1, <4>3 DEF TypeOK
        <5>3. QED
          BY <3>1, <5>1, <5>2 DEF Agrees, GuestTokens
      <4>4. QED
        BY <4>2, <4>3
    <3>4. QED
      BY <3>1, <3>2, <3>3 DEF DurableInv, GuestTokens
  <2>3. QED
    BY <2>1, <2>2
<1>15. CASE Tick
  <2>1. /\ UNCHANGED <<up, pin, guestPin, sessions, pinFile, sessionsFile, phase, op,
                       degraded>>
        /\ now' = now + 1
    BY <1>15 DEF Tick, memory, disk, mutex, ghosts
  <2>2. \A t \in Tokens : sessionsFile # Torn /\ sessionsFile[t] # NoSession =>
            sessionsFile[t].expires \in Nat
    BY DEF TypeOK
  <2>3. ASSUME ~degraded, NEW t \in Tokens
        PROVE  /\ Agrees(t) => Agrees(t)'
               /\ sessionsFile[t] # NoSession /\ sessionsFile[t].expires > now' =>
                    sessionsFile[t].expires > now
    BY <2>1, <2>2, <2>3 DEF Agrees, DurableInv, TypeOK
  <2>4. QED
    BY <2>1, <2>3 DEF DurableInv, GuestTokens
<1>16. CASE UNCHANGED vars
  BY <1>16 DEF vars, DurableInv, Agrees, GuestTokens, memory, disk, mutex, ghosts
<1>17. QED
  BY <1>1, <1>2, <1>3, <1>4, <1>5, <1>6, <1>7, <1>8, <1>9, <1>10, <1>11, <1>12,
     <1>13, <1>14, <1>15, <1>16 DEF Next, Request

LEMMA Durable == Spec => []DurableInv
<1>1. Init => DurableInv
  BY SentinelsAssumption DEF Init, DurableInv, Agrees, GuestTokens
<1>2. QED
  BY <1>1, TypeCorrect, NextDurable, PTL DEF Spec

\* Until a write fails or a crash interrupts an operation, a restart of an idle
\* server loses neither a PIN nor an unexpired session.
THEOREM RestartIsLossless == Spec => []RestartLosesNothing
<1>1. DurableInv => RestartLosesNothing
  BY DEF DurableInv, RestartLosesNothing, Agrees
<1>2. QED
  BY <1>1, Durable, PTL

\* Under the same condition a guest session is live only while guest access is on.
THEOREM GuestsHaveAGuestPIN == Spec => []GuestsNeedGuestPIN
<1>1. DurableInv => GuestsNeedGuestPIN
  BY DEF DurableInv, GuestsNeedGuestPIN
<1>2. QED
  BY <1>1, Durable, PTL

-----------------------------------------------------------------------------
(* Sessions that were handed out                                           *)

Removals == {"Logout", "RemoveGuestPIN"}
SignIns == {"SetupPIN", "EnablePIN", "Login", "CreateUserSession"}

\* The session behind a token is as it was handed out, in memory or, for a stopped
\* server, in the file it restarts from; it has expired, or it was removed.
Kept(t) ==
    \/ issued[t] = NoSession \/ now >= issued[t].expires
    \/ t \in revoked \/ (op.name \in Removals /\ t \in op.tokens)
    \/ IF up THEN sessions[t] = issued[t] ELSE sessionsFile[t] = issued[t]

HonouredInv ==
    /\ \A t \in Tokens : issued[t] # NoSession => t \in used
    /\ op.name \in SignIns => op.tokens \subseteq used
    /\ ~degraded => \A t \in Tokens : Kept(t)

\* A fresh token was handed to nobody yet.
LEMMA AddSessionHonoured ==
  ASSUME TypeOK, HonouredInv, op.name \notin Removals, NEW name \in SignIns,
         NEW t, NEW role, NEW user, AddSession(name, t, role, user), up,
         UNCHANGED <<up, issued, revoked, degraded, now>>
  PROVE  HonouredInv'
<1>1. /\ t \in Tokens \ used /\ used' = used \cup {t} /\ op'.name = name /\ op'.tokens = {t}
      /\ \A u \in Tokens : u # t => sessions'[u] = sessions[u]
  BY DEF AddSession, Start, TypeOK
<1>2. issued[t] = NoSession
  BY <1>1 DEF HonouredInv
<1>3. QED
  BY <1>1, <1>2 DEF HonouredInv, Kept

\* Tokens are taken out of memory by an operation that is about them, or have expired.
LEMMA RemovalHonoured ==
  ASSUME TypeOK, HonouredInv, op.name \notin Removals, NEW name \in OpNames \ SignIns,
         NEW S, sessions' = Without(sessions, S), op' = [name |-> name, tokens |-> S],
         name \in Removals \/ S \subseteq Expired,
         up, UNCHANGED <<up, issued, revoked, used, degraded, now>>
  PROVE  HonouredInv'
<1>1. \A t \in Tokens : t \notin S => sessions'[t] = sessions[t]
  BY DEF Without
<1>2. ASSUME ~degraded, NEW t \in Tokens
      PROVE  Kept(t)'
  <2>1. Kept(t)
    BY <1>2 DEF HonouredInv
  <2>2. CASE t \notin S
    BY <1>1, <2>1, <2>2 DEF Kept
  <2>3. CASE name \in Removals /\ t \in S
    BY <2>3 DEF Kept
  <2>4. CASE t \in Expired
    <3>1. now \in Nat /\ sessions[t].expires \in Nat /\ now > sessions[t].expires
      BY <2>4 DEF TypeOK, Expired
    <3>2. QED
      BY <2>1, <3>1 DEF Kept
  <2>5. QED
    BY <2>2, <2>3, <2>4
<1>3. QED
  BY <1>2 DEF HonouredInv

\* The operation is reported as done.
LEMMA AcknowledgeHonoured ==
  ASSUME TypeOK, HonouredInv, up, Acknowledge,
         UNCHANGED <<up, sessions, used, degraded, now>>
  PROVE  HonouredInv'
<1>1. op' = Idle /\ op'.name \notin SignIns
  BY DEF Acknowledge, SignIns
<1>2. ASSUME NEW t \in Tokens
      PROVE  \/ issued'[t] = issued[t]
             \/ issued'[t] = sessions[t] /\ t \in op.tokens /\ op.name \in SignIns
  BY <1>2 DEF Acknowledge, TypeOK, SignIns
<1>3. \A t \in Tokens : issued'[t] # NoSession => t \in used'
  BY <1>2 DEF HonouredInv
<1>4. ASSUME ~degraded, NEW t \in Tokens
      PROVE  Kept(t)'
  <2>1. Kept(t)
    BY <1>4 DEF HonouredInv
  <2>2. t \in revoked \/ (op.name \in Removals /\ t \in op.tokens) => t \in revoked'
    BY DEF Acknowledge, Removals
  <2>3. QED
    BY <1>2, <2>1, <2>2 DEF Kept
<1>5. QED
  BY <1>1, <1>3, <1>4 DEF HonouredInv

LEMMA NextHonoured == TypeOK /\ DurableInv /\ HonouredInv /\ [Next]_vars => HonouredInv'
<1> SUFFICES ASSUME TypeOK, DurableInv, HonouredInv, [Next]_vars
             PROVE  HonouredInv'
  OBVIOUS
<1>0. phase = "none" => op.name \notin Removals
  BY DEF DurableInv, Removals
<1>1. ASSUME NEW p \in PINs, NEW name \in {"SetupPIN", "EnablePIN"}, SetupPIN(name, p)
      PROVE  HonouredInv'
  BY <1>0, <1>1 DEF SetupPIN, Start, HonouredInv, Kept, disk, ghosts
<1>2. ASSUME NEW p \in PINs, NEW q \in PINs, ChangePIN(p, q)
      PROVE  HonouredInv'
  BY <1>0, <1>2 DEF ChangePIN, Start, HonouredInv, Kept, disk, ghosts
<1>3. ASSUME NEW p \in PINs, NEW q \in PINs, SetGuestPIN(p, q)
      PROVE  HonouredInv'
  BY <1>0, <1>3 DEF SetGuestPIN, Start, HonouredInv, Kept, disk, ghosts
<1>4. ASSUME NEW p \in PINs, RemoveGuestPIN(p)
      PROVE  HonouredInv'
  BY <1>0, <1>4, RemovalHonoured DEF RemoveGuestPIN, Start, ghosts, Removals, SignIns
<1>5. ASSUME NEW p \in PINs, NEW t \in Tokens, LoginOK(p, t)
      PROVE  HonouredInv'
  BY <1>0, <1>5, AddSessionHonoured DEF LoginOK, SignIns
<1>6. ASSUME NEW p \in PINs, LoginWrong(p)
      PROVE  HonouredInv'
  BY <1>6 DEF LoginWrong, HonouredInv, Kept, disk, mutex
<1>7. ASSUME NEW u \in Users, NEW t \in Tokens, CreateUserSession(u, t)
      PROVE  HonouredInv'
  BY <1>0, <1>7, AddSessionHonoured DEF CreateUserSession, SignIns
<1>8. ASSUME NEW t \in Tokens, Logout(t)
      PROVE  HonouredInv'
  BY <1>0, <1>8, RemovalHonoured DEF Logout, Start, ghosts, Removals, SignIns
<1>9. CASE PruneExpiredSessions
  BY <1>0, <1>9, RemovalHonoured DEF PruneExpiredSessions, Start, ghosts, SignIns
<1>10. CASE PINWritten
  <2> USE <1>10 DEF PINWritten
  <2>1. CASE op.name \in {"SetupPIN", "EnablePIN"}
    BY <2>1, AddSessionHonoured DEF Removals, SignIns
  <2>2. CASE op.name = "RemoveGuestPIN"
    BY <2>2 DEF HonouredInv, Kept
  <2>3. CASE op.name \in {"ChangePIN", "SetGuestPIN"}
    BY <2>3, AcknowledgeHonoured
  <2>4. QED
    BY <2>1, <2>2, <2>3
<1>11. CASE SessionsWritten
  BY <1>11, AcknowledgeHonoured DEF SessionsWritten, memory
<1>12. CASE WriteFails
  BY <1>12 DEF WriteFails, HonouredInv, SignIns
<1>13. CASE Crash
  <2>1. /\ up /\ ~up' /\ op' = Idle /\ UNCHANGED <<used, issued, revoked, now>>
        /\ degraded' = (degraded \/ phase # "none")
    BY <1>13 DEF Crash
  <2>2. ASSUME ~degraded', NEW t \in Tokens
        PROVE  Kept(t)'
    <3>1. ~degraded /\ phase = "none" /\ op = Idle /\ UNCHANGED sessionsFile
      BY <1>13, <2>1, <2>2 DEF Crash, DurableInv
    <3>2. Kept(t) /\ Agrees(t)
      BY <2>1, <3>1 DEF HonouredInv, DurableInv
    <3>3. QED
      BY <2>1, <3>1, <3>2 DEF Kept, Agrees, Removals
  <2>3. QED
    BY <2>1, <2>2 DEF HonouredInv, SignIns
<1>14. CASE Restart
  <2>1. /\ ~up /\ up' /\ sessionsFile # Torn
        /\ UNCHANGED <<op, used, issued, revoked, now, degraded>>
        /\ sessions' = [t \in Tokens |->
               IF sessionsFile[t] # NoSession /\ sessionsFile[t].expires > now
                 THEN sessionsFile[t] ELSE NoSession]
    BY <1>14 DEF Restart, mutex, ghosts
  <2>2. ASSUME ~degraded, NEW t \in Tokens
        PROVE  Kept(t)'
    <3>1. Kept(t)
      BY <2>2 DEF HonouredInv
    <3>2. issued[t] # NoSession => issued[t].expires \in Nat /\ now \in Nat
      BY DEF TypeOK
    <3>3. QED
      BY <2>1, <3>1, <3>2 DEF Kept
  <2>3. QED
    BY <2>1, <2>2 DEF HonouredInv
<1>15. CASE Tick
  <2>1. /\ UNCHANGED <<up, sessions, sessionsFile, op, used, issued, revoked, degraded>>
        /\ now' = now + 1
    BY <1>15 DEF Tick, memory, disk, mutex, ghosts
  <2>2. ASSUME NEW t \in Tokens, Kept(t)
        PROVE  Kept(t)'
    <3>1. now \in Nat /\ (issued[t] # NoSession => issued[t].expires \in Nat)
      BY DEF TypeOK
    <3>2. QED
      BY <2>1, <2>2, <3>1 DEF Kept
  <2>3. QED
    BY <2>1, <2>2 DEF HonouredInv
<1>16. CASE UNCHANGED vars
  BY <1>16 DEF vars, HonouredInv, Kept, memory, disk, mutex, ghosts
<1>17. QED
  BY <1>1, <1>2, <1>3, <1>4, <1>5, <1>6, <1>7, <1>8, <1>9, <1>10, <1>11, <1>12,
     <1>13, <1>14, <1>15, <1>16 DEF Next, Request

\* Until a write fails or a crash interrupts an operation, a session handed to a client
\* is honoured until it expires or is removed, through restarts and changes of the PIN.
THEOREM SessionsAreHonoured == Spec => []IssuedIsHonoured
<1>1. Init => HonouredInv
  BY DEF Init, HonouredInv, Kept, SignIns
<1>2. TypeOK /\ HonouredInv => IssuedIsHonoured
  BY DEF HonouredInv, Kept, IssuedIsHonoured
<1>3. QED
  BY <1>1, <1>2, TypeCorrect, Durable, NextHonoured, PTL DEF Spec

-----------------------------------------------------------------------------
(* The rate of guesses                                                     *)

\* The sequence moves down by one when it is full, and gets the new time at its end.
LEMMA RememberEnds ==
  ASSUME NEW times \in Seq(Nat), NEW time \in Nat, Len(times) <= maxFailedAttempts + 1,
         NEW later, later = Remember(times, time)
  PROVE  \E k \in {0, 1} :
            /\ k = 1 <=> Len(times) = maxFailedAttempts + 1
            /\ Len(later) = Len(times) + 1 - k /\ later[Len(later)] = time
            /\ \A i \in 1 .. Len(later) - 1 : later[i] = times[i + k]
<1> USE ConstantsAssumption
<1>1. CASE Len(times) <= maxFailedAttempts
  <2>1. later = Append(times, time)
    BY <1>1 DEF Remember
  <2>2. /\ Len(later) = Len(times) + 1 - 0 /\ later[Len(later)] = time
        /\ \A i \in 1 .. Len(later) - 1 : later[i] = times[i + 0]
    BY <2>1
  <2>3. QED
    BY <1>1, <2>2
<1>2. CASE Len(times) = maxFailedAttempts + 1
  <2>1. later = Append(Tail(times), time)
    BY <1>2 DEF Remember
  <2>2. /\ Tail(times) \in Seq(Nat) /\ Len(Tail(times)) = Len(times) - 1
        /\ \A i \in 1 .. Len(times) - 1 : Tail(times)[i] = times[i + 1]
    <3>1. times # <<>>
      BY <1>2
    <3>2. QED
      BY <3>1
  <2>3. Len(later) = Len(times) /\ later[Len(later)] = time
    BY <2>1, <2>2
  <2>4. \A i \in 1 .. Len(later) - 1 : later[i] = times[i + 1]
    BY <2>1, <2>2, <2>3
  <2>5. QED
    BY <1>2, <2>3, <2>4
<1>3. QED
  BY <1>1, <1>2

\* The last failedAttempts rejections came after the lock that the one before them
\* brought; GuessesAreSlow itself keeps what is known of the lock before that one.
GuessInv ==
    /\ Len(wrongAt) <= maxFailedAttempts + 1 /\ failedAttempts <= Len(wrongAt)
    /\ \A i, j \in 1 .. Len(wrongAt) :
          i <= j => wrongAt[i] <= wrongAt[j] /\ wrongAt[j] <= now
    /\ Len(wrongAt) > failedAttempts =>
          /\ lockedUntil = wrongAt[Len(wrongAt) - failedAttempts] + lockoutDuration
          /\ \A j \in Len(wrongAt) - failedAttempts + 1 .. Len(wrongAt) :
                wrongAt[j] >= lockedUntil
    /\ GuessesAreSlow

LEMMA NoGuesses ==
  ASSUME wrongAt' = <<>>, failedAttempts' = 0
  PROVE  GuessInv'
  BY ConstantsAssumption DEF GuessInv, GuessesAreSlow

\* Where an element comes from.
LEMMA Shifted ==
  ASSUME NEW n \in Nat, NEW m \in Nat, NEW k \in {0, 1}, m = n + 1 - k, NEW i \in 1 .. m - 1
  PROVE  /\ i + k \in 1 .. n
         /\ \A b, c \in Nat : b = c - k /\ i > b => i + k > c
  OBVIOUS

LEMMA LoginWrongSlow ==
  ASSUME TypeOK, GuessInv, NEW p \in PINs, LoginWrong(p)
  PROVE  GuessInv'
<1> USE ConstantsAssumption
<1> DEFINE n == Len(wrongAt)
           m == Len(wrongAt')
<1>1. /\ wrongAt' = Remember(wrongAt, now) /\ now >= lockedUntil /\ UNCHANGED now
      /\ wrongAt \in Seq(Nat) /\ now \in Nat /\ lockedUntil \in Nat /\ n \in Nat
      /\ failedAttempts \in 0 .. maxFailedAttempts - 1
  BY DEF LoginWrong, TypeOK
<1>2. n <= maxFailedAttempts + 1 /\ failedAttempts <= n
  BY DEF GuessInv
<1>3. PICK k \in {0, 1} :
        /\ k = 1 <=> n = maxFailedAttempts + 1
        /\ m = n + 1 - k /\ wrongAt'[m] = now
        /\ \A i \in 1 .. m - 1 : wrongAt'[i] = wrongAt[i + k]
  BY <1>1, <1>2, RememberEnds
<1>4. wrongAt' \in Seq(Nat) /\ m \in Nat
  BY <1>1, RememberType
<1>5. /\ \A i \in 1 .. n : wrongAt[i] \in Nat /\ wrongAt[i] <= now
      /\ \A i, j \in 1 .. n : i <= j => wrongAt[i] <= wrongAt[j]
  BY <1>1 DEF GuessInv
<1>6. \A i, j \in 1 .. m : i <= j => wrongAt'[i] <= wrongAt'[j] /\ wrongAt'[j] <= now'
  <2> SUFFICES ASSUME NEW i \in 1 .. m, NEW j \in 1 .. m, i <= j
               PROVE  wrongAt'[i] <= wrongAt'[j] /\ wrongAt'[j] <= now
    BY <1>1
  <2>1. CASE j = m /\ i = m
    BY <1>1, <1>3, <2>1
  <2>2. CASE j = m /\ i # m
    <3>1. i \in 1 .. m - 1
      BY <1>4, <2>2
    <3>2. i + k \in 1 .. n
      BY <1>1, <1>3, <1>4, <3>1, Shifted
    <3>3. wrongAt'[i] = wrongAt[i + k] /\ wrongAt[i + k] <= now
      BY <1>3, <1>5, <3>1, <3>2
    <3>4. wrongAt'[j] = now
      BY <1>3, <2>2
    <3>5. QED
      BY <1>1, <3>3, <3>4
  <2>3. CASE j # m
    <3>1. i \in 1 .. m - 1 /\ j \in 1 .. m - 1
      BY <1>4, <2>3
    <3>2. i + k \in 1 .. n /\ j + k \in 1 .. n
      BY <1>1, <1>3, <1>4, <3>1, Shifted
    <3>3. i + k <= j + k
      OBVIOUS
    <3>4. QED
      BY <1>3, <1>5, <3>1, <3>2, <3>3
  <2>4. QED
    BY <2>1, <2>2, <2>3
<1>7. m <= maxFailedAttempts + 1
  BY <1>1, <1>2, <1>3
<1>8. CASE failedAttempts + 1 >= maxFailedAttempts
  <2>1. failedAttempts' = 0 /\ lockedUntil' = now + lockoutDuration
    BY <1>8 DEF LoginWrong
  <2>2. ASSUME m = maxFailedAttempts + 1
        PROVE  wrongAt'[m] - wrongAt'[1] >= lockoutDuration
    <3>1. /\ failedAttempts = maxFailedAttempts - 1 /\ n > failedAttempts
          /\ n - failedAttempts = 1 + k /\ 1 \in 1 .. m - 1 /\ 1 + k \in 1 .. n
      BY <1>1, <1>2, <1>3, <1>8, <2>2
    <3>2. lockedUntil = wrongAt[1 + k] + lockoutDuration
      BY <3>1 DEF GuessInv
    <3>3. wrongAt'[1] = wrongAt[1 + k]
      BY <1>3, <3>1
    <3>4. wrongAt[1 + k] \in Nat
      BY <1>5, <3>1
    <3>5. QED
      BY <1>1, <1>3, <3>2, <3>3, <3>4
  <2>3. m >= 1
    BY <1>1, <1>3, <1>2
  <2>4. QED
    BY <1>3, <1>4, <1>6, <1>7, <2>1, <2>2, <2>3 DEF GuessInv, GuessesAreSlow
<1>9. CASE ~(failedAttempts + 1 >= maxFailedAttempts)
  <2>1. failedAttempts' = failedAttempts + 1 /\ UNCHANGED lockedUntil
    BY <1>9 DEF LoginWrong
  <2>2. failedAttempts' <= m
    BY <1>1, <1>2, <1>3, <1>9, <2>1
  <2>3. ASSUME m > failedAttempts'
        PROVE  /\ lockedUntil = wrongAt'[m - failedAttempts'] + lockoutDuration
               /\ \A j \in m - failedAttempts' + 1 .. m : wrongAt'[j] >= lockedUntil
    <3>1. /\ n > failedAttempts /\ m - failedAttempts' = n - failedAttempts - k
          /\ m - failedAttempts' \in 1 .. m - 1
      BY <1>1, <1>2, <1>3, <1>4, <1>9, <2>1, <2>3
    <3>2. /\ lockedUntil = wrongAt[n - failedAttempts] + lockoutDuration
          /\ \A j \in n - failedAttempts + 1 .. n : wrongAt[j] >= lockedUntil
      BY <3>1 DEF GuessInv
    <3>3. (m - failedAttempts') + k = n - failedAttempts
      BY <1>1, <1>3, <3>1
    <3>4. wrongAt'[m - failedAttempts'] = wrongAt[n - failedAttempts]
      BY <1>3, <3>1, <3>3
    <3>5. ASSUME NEW j \in m - failedAttempts' + 1 .. m
          PROVE  wrongAt'[j] >= lockedUntil
      <4>1. CASE j = m
        BY <1>1, <1>3, <4>1
      <4>2. CASE j # m
        <5>1. j \in 1 .. m - 1 /\ j > m - failedAttempts' /\ m - failedAttempts' \in Nat
          BY <1>4, <3>1, <4>2
        <5>2. j + k \in 1 .. n /\ j + k > n - failedAttempts
          <6>1. n - failedAttempts \in Nat /\ m - failedAttempts' = (n - failedAttempts) - k
            BY <1>1, <3>1
          <6>2. n \in Nat /\ m \in Nat /\ m = n + 1 - k
            BY <1>1, <1>3, <1>4
          <6>3. QED
            BY <5>1, <6>1, <6>2, Shifted
        <5>3. j + k \in n - failedAttempts + 1 .. n
          BY <1>1, <5>2
        <5>4. QED
          BY <1>3, <3>2, <5>1, <5>3
      <4>3. QED
        BY <4>1, <4>2
    <3>6. QED
      BY <3>2, <3>4, <3>5
  <2>4. ASSUME m = maxFailedAttempts + 1
        PROVE  wrongAt'[m] - wrongAt'[1] >= lockoutDuration
    <3>1. m > failedAttempts' /\ m - failedAttempts' \in 1 .. m /\ 1 \in 1 .. m
      BY <1>1, <1>9, <2>1, <2>4
    <3>2. lockedUntil = wrongAt'[m - failedAttempts'] + lockoutDuration
      BY <2>3, <3>1
    <3>3. wrongAt'[1] <= wrongAt'[m - failedAttempts'] /\ wrongAt'[m] = now
      BY <1>3, <1>6, <3>1
    <3>4. wrongAt'[1] \in Nat /\ wrongAt'[m - failedAttempts'] \in Nat
      BY <1>4, <3>1
    <3>5. QED
      BY <1>1, <3>2, <3>3, <3>4
  <2>5. QED
    BY <1>4, <1>6, <1>7, <2>1, <2>2, <2>3, <2>4 DEF GuessInv, GuessesAreSlow
<1>10. QED
  BY <1>8, <1>9

LEMMA NextGuess == TypeOK /\ GuessInv /\ [Next]_vars => GuessInv'
<1> SUFFICES ASSUME TypeOK, GuessInv, [Next]_vars
             PROVE  GuessInv'
  OBVIOUS
<1>1. ASSUME UNCHANGED <<wrongAt, failedAttempts, lockedUntil>>, now' \in {now, now + 1}
      PROVE  GuessInv'
  <2>1. now \in Nat /\ \A i \in 1 .. Len(wrongAt) : wrongAt[i] \in Nat
    BY DEF TypeOK
  <2>2. \A j \in 1 .. Len(wrongAt) : wrongAt[j] <= now'
    BY <1>1, <2>1 DEF GuessInv
  <2>3. QED
    BY <1>1, <2>2 DEF GuessInv, GuessesAreSlow
<1>2. ASSUME NEW p \in PINs, NEW t \in Tokens, LoginOK(p, t)
      PROVE  GuessInv'
  BY <1>2, NoGuesses DEF LoginOK
<1>3. ASSUME NEW p \in PINs, LoginWrong(p)
      PROVE  GuessInv'
  BY <1>3, LoginWrongSlow
<1>4. CASE Crash
  BY <1>4, NoGuesses DEF Crash
<1>5. CASE PINWritten \/ SessionsWritten \/ WriteFails \/ Restart \/ Tick \/ UNCHANGED vars
  BY <1>1, <1>5 DEF PINWritten, SessionsWritten, WriteFails, Restart, Tick, vars, memory,
                    ghosts
<1>6. CASE PruneExpiredSessions
  BY <1>1, <1>6 DEF PruneExpiredSessions, ghosts
<1>7. ASSUME NEW p \in PINs, NEW name \in {"SetupPIN", "EnablePIN"}, SetupPIN(name, p)
      PROVE  GuessInv'
  BY <1>1, <1>7 DEF SetupPIN, ghosts
<1>8. ASSUME NEW p \in PINs, NEW q \in PINs, ChangePIN(p, q) \/ SetGuestPIN(p, q)
      PROVE  GuessInv'
  BY <1>1, <1>8 DEF ChangePIN, SetGuestPIN, ghosts
<1>9. ASSUME NEW p \in PINs, RemoveGuestPIN(p)
      PROVE  GuessInv'
  BY <1>1, <1>9 DEF RemoveGuestPIN, ghosts
<1>10. ASSUME NEW u \in Users, NEW t \in Tokens, CreateUserSession(u, t)
       PROVE  GuessInv'
  BY <1>1, <1>10 DEF CreateUserSession
<1>11. ASSUME NEW t \in Tokens, Logout(t)
       PROVE  GuessInv'
  BY <1>1, <1>11 DEF Logout, ghosts
<1>12. QED
  BY <1>2, <1>3, <1>4, <1>5, <1>6, <1>7, <1>8, <1>9, <1>10, <1>11 DEF Next, Request

\* Of any maxFailedAttempts + 1 wrong PINs in a row the last comes at least a lockout
\* after the first.
THEOREM GuessesStaySlow == Spec => []GuessesAreSlow
<1>1. Init => GuessInv
  BY ConstantsAssumption DEF Init, GuessInv, GuessesAreSlow
<1>2. GuessInv => GuessesAreSlow
  BY DEF GuessInv
<1>3. QED
  BY <1>1, <1>2, TypeCorrect, NextGuess, PTL DEF Spec
=============================================================================
