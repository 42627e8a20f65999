----------------------------- MODULE MCSessions -----------------------------
(***************************************************************************)
(* A session over its inbox; the inbox alone, whose store loses replies;   *)
(* and the remote runtime.  Each on its own.                               *)
(***************************************************************************)
EXTENDS Session, RemoteRuntime

CONSTANTS
    Focus,              \* the components a run takes, each on its own
    s1, s2, f1          \* messages of the inbox

VARIABLE focus          \* the component that runs; the others stay in their first state

-----------------------------------------------------------------------------
\* The session and the inbox alone have messages of different sizes and an inbox that cannot
\* hold all of them.

MCBytes == [i \in Items |-> IF i = s2 THEN 2 ELSE 1]

\* The session is sent the small messages only.
SmallMessages == focus = "session" /\ s2 \in Items => producer'[s2] = "new"

\* A crash or a failed run, not both.
OneTrouble == focus = "session" => crashes + failures <= 1

\* The inbox alone: a put may fail after it was applied.
Lossy == INSTANCE Inbox WITH Runs <- {"run"}, LostReplies <- TRUE, MaxTransitions <- 3

\* All three messages without a crash, two of them with one.
TwoIfCrashed == focus = "inbox" => crashes = 0 \/ producer[s1] = "new"

-----------------------------------------------------------------------------
\* Without the session its variables have no value.
SessionAbsent ==
    /\ sess = None /\ run = None /\ last = None /\ status = None /\ state = None
    /\ saved = None /\ started = None /\ made = None /\ followUps = None
    /\ failures = None /\ unsure = None

SessionsInit ==
    /\ focus \in Focus
    /\ IF focus = "inbox" THEN Lossy!Init /\ SessionAbsent ELSE SessionInit
    /\ RemoteInit

SessionsNext ==
    \/ focus = "session" /\ SessionNext /\ UNCHANGED <<focus, remoteVars>>
    \/ focus = "inbox" /\ Lossy!Next /\ UNCHANGED <<focus, execution, saved, failed, remoteVars>>
    \/ focus = "remote" /\ RemoteNext /\ UNCHANGED <<focus, sessionVars>>

SessionsVars == <<focus, sessionVars, remoteVars>>

SessionsSpec == SessionsInit /\ [][SessionsNext]_SessionsVars

-----------------------------------------------------------------------------
\* No accepted message is lost and no steering message is injected twice, over crashes,
\* failed runs and recovery (turbo_agent_session.c, turbo_agent_inbox.c recover).
MessagesKept == focus = "session" => NothingLost /\ SteerInjectedOnce

\* Within one execution a follow-up run starts from all the previous run stored
\* (run_follow_ups).
FollowUpsChain == focus = "session" => FollowUpKeepsHistory

\* A remote call is served by the method it names and returns its own reply
\* (turbo_agent_runtime_remote_client.c).
RemoteSound ==
    /\ [](focus = "remote" => CallsServed)
    /\ [][focus = "remote" => ResultIsOwnStep]_remoteVars
=============================================================================
