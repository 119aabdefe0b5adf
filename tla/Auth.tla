-------------------------------- MODULE Auth --------------------------------
(***************************************************************************)
(* The authentication manager (auth.go): challenges handed out to clients  *)
(* and the sessions of the addresses that answered one, each table behind  *)
(* a lock of its own, with a goroutine that cleans both every ten minutes. *)
(*                                                                         *)
(* Time is what it does: a challenge or a session that lives long enough   *)
(* expires, at any moment.  A name is an address as a client spells it.    *)
(***************************************************************************)
EXTENDS Naturals, FiniteSets

CONSTANTS
  Names,          \* spellings of addresses, "0x" in front
  Tokens,         \* challenge tokens, no two of them equal (UUIDs)
  MaxChallenges   \* maxChallenges

ASSUME AuthAssumption == MaxChallenges \in Nat \ {0}

VARIABLES
  challenges,     \* token -> challenge
  sessions,       \* name -> whether it has a session, and of what age
  cleaner         \* which table the cleaning goroutine turns to

authVars == <<challenges, sessions, cleaner>>

Challenge ==
  [state : {"unissued", "removed"}]
    \cup [state : {"pending", "completed"}, owner : Names, expired : BOOLEAN]

Removed == [state |-> "removed"]

AuthTypeOK ==
  /\ challenges \in [Tokens -> Challenge]
  /\ sessions \in [Names -> {"none", "live", "expired"}]
  /\ cleaner \in {"challenges", "sessions"}

AuthInit ==
  /\ challenges = [t \in Tokens |-> [state |-> "unissued"]]
  /\ sessions = [n \in Names |-> "none"]
  /\ cleaner = "challenges"

-----------------------------------------------------------------------------

Stored == {t \in Tokens : challenges[t].state \in {"pending", "completed"}}

TableFull == Cardinality(Stored) >= MaxChallenges

GenerateChallenge(t, n) ==
  /\ ~TableFull
  /\ challenges[t].state = "unissued"
  /\ challenges' = [challenges EXCEPT ![t] =
                      [state |-> "pending", owner |-> n, expired |-> FALSE]]
  /\ UNCHANGED <<sessions, cleaner>>

\* Mutant: a challenge may be used again until it expires.
Answers_Reusable(t, n) ==
  t \in Stored /\ challenges[t].owner = n /\ ~challenges[t].expired

Answers(t, n) ==
  /\ challenges[t].state = "pending"
  /\ challenges[t].owner = n
  /\ ~challenges[t].expired

\* ValidateChallenge accepts: the challenge is kept a little longer, as
\* completed, and its owner has a session.
AcceptChallenge(t, n) ==
  /\ Answers(t, n)
  /\ challenges' = [challenges EXCEPT ![t].state = "completed"]
  /\ sessions' = [sessions EXCEPT ![n] = "live"]
  /\ UNCHANGED cleaner

\* It refuses: a challenge that is its owner's but expired or used is removed.
RefuseChallenge(t, n) ==
  /\ ~Answers(t, n)
  /\ challenges' = IF t \in Stored /\ challenges[t].owner = n
                   THEN [challenges EXCEPT ![t] = Removed] ELSE challenges
  /\ UNCHANGED <<sessions, cleaner>>

ValidateSession(n) == sessions[n] = "live"

\* UpdateSession asks only whether there is a session, not how old it is.
UpdateSession(n) ==
  sessions' = IF sessions[n] = "none" THEN sessions ELSE [sessions EXCEPT ![n] = "live"]

-----------------------------------------------------------------------------
(* Time and the cleaning goroutine.                                        *)

ChallengeExpires(t) ==
  /\ t \in Stored
  /\ ~challenges[t].expired
  /\ challenges' = [challenges EXCEPT ![t].expired = TRUE]
  /\ UNCHANGED <<sessions, cleaner>>

SessionExpires(n) ==
  /\ sessions[n] = "live"
  /\ sessions' = [sessions EXCEPT ![n] = "expired"]
  /\ UNCHANGED <<challenges, cleaner>>

\* Mutant: only challenges nobody used are cleaned.
Outdated_PendingOnly(t) == challenges[t].state = "pending" /\ challenges[t].expired

Outdated(t) == t \in Stored /\ challenges[t].expired

CleanChallenges ==
  /\ cleaner = "challenges"
  /\ challenges' = [t \in Tokens |-> IF Outdated(t) THEN Removed ELSE challenges[t]]
  /\ cleaner' = "sessions"
  /\ UNCHANGED sessions

CleanSessions ==
  /\ cleaner = "sessions"
  /\ sessions' = [n \in Names |-> IF sessions[n] = "expired" THEN "none" ELSE sessions[n]]
  /\ cleaner' = "challenges"
  /\ UNCHANGED challenges

Cleanup == CleanChallenges \/ CleanSessions
=============================================================================
