------------------------------- MODULE Exchange --------------------------------
(***************************************************************************)
(* How a client reaches the one coordinator of its user: connecting,       *)
(* starting a coordinator when none listens, and replacing one left by an  *)
(* older version.  Copies of several versions may be installed and running *)
(* at once.  The calls of `exchange' that are waiting for one another are  *)
(* the sequence `calls[c]', the innermost last.  What the command does is  *)
(* left to Coordinator; here it is carried out, once or more, or refused.  *)
(***************************************************************************)
EXTENDS Integers, Sequences, FiniteSets

CONSTANTS Clients,      \* running copies of the program
          VersionOf,    \* the protocol version of each copy
          BinaryOf,     \* the version of the executable each copy starts
          Requests,     \* requests each copy makes in a behaviour, at most
          Depth,        \* calls waiting for one another, at most
          Exits         \* times a coordinator retires or dies, at most

ASSUME ExchangeAssumption ==
    /\ VersionOf \in [Clients -> Nat \ {0}] /\ BinaryOf \in [Clients -> Nat \ {0}]
    /\ Requests \in [Clients -> Nat] /\ {Depth, Exits} \subseteq Nat

VARIABLES server,    \* the coordinator: its version, and how far it is
          owner,     \* who holds owner.lock: nobody, the server, a client
          spawned,   \* started processes that have not tried the lock yet
          calls, stage, reply,
          made, asked, done, replaced, left, outcome   \* histories and bounds

exchange == <<server, owner, spawned, calls, stage, reply, made, asked, done, replaced, left, outcome>>

Nobody == "nobody"
NoReply == [version |-> 0, ok |-> FALSE]
Server == "server"
Call(command, may) == [command |-> command, may |-> may]
Top(c) == calls[c][Len(calls[c])]
Below(c) == SubSeq(calls[c], 1, Len(calls[c]) - 1)
Serving == server.state = "serving"

ExchangeInit ==
    /\ \E v \in {0} \cup {BinaryOf[c] : c \in Clients} :
          /\ server = [version |-> v, state |-> IF v = 0 THEN "none" ELSE "serving"]
          /\ owner = IF v = 0 THEN Nobody ELSE Server
    /\ spawned = {} /\ left = Exits
    /\ calls = [c \in Clients |-> <<>>] /\ stage = [c \in Clients |-> "idle"]
    /\ reply = [c \in Clients |-> NoReply]
    /\ made = [c \in Clients |-> 0] /\ asked = [c \in Clients |-> "none"]
    /\ done = [c \in Clients |-> 0] /\ replaced = [c \in Clients |-> 0]
    /\ outcome = [c \in Clients |-> "none"]

---------------------------------------------------------------------------
(* The client. *)

\* A request of the program: a command, or the user's own restart.
Ask(c) ==
    /\ stage[c] = "idle" /\ made[c] < Requests[c]
    /\ \E command \in {"work", "restart"} :
          /\ calls' = [calls EXCEPT ![c] = <<Call(command, TRUE)>>]
          /\ asked' = [asked EXCEPT ![c] = command]
    /\ stage' = [stage EXCEPT ![c] = "connect"]
    /\ made' = [made EXCEPT ![c] = @ + 1]
    /\ done' = [done EXCEPT ![c] = 0] /\ replaced' = [replaced EXCEPT ![c] = 0]
    /\ outcome' = [outcome EXCEPT ![c] = "none"]
    /\ UNCHANGED <<server, owner, spawned, reply, left>>

\* Connect to the socket; when nothing listens, start the coordinator.
Connect(c) ==
    /\ stage[c] = "connect"
    /\ \/ Serving /\ stage' = [stage EXCEPT ![c] = "sent"] /\ UNCHANGED spawned
       \/ /\ ~Serving
          /\ spawned' = spawned \cup {c}
          /\ stage' = [stage EXCEPT ![c] = "waiting"]
    /\ UNCHANGED <<server, owner, calls, reply, made, asked, done, replaced, left, outcome>>

WaitForSocket(c) ==
    /\ stage[c] = "waiting" /\ Serving
    /\ stage' = [stage EXCEPT ![c] = "sent"]
    /\ UNCHANGED <<server, owner, spawned, calls, reply, made, asked, done, replaced, left, outcome>>

\* The request fails: every waiting call returns the error.
Fails(c) ==
    /\ stage' = [stage EXCEPT ![c] = "idle"]
    /\ calls' = [calls EXCEPT ![c] = <<>>]
    /\ outcome' = [outcome EXCEPT ![c] = "failed"] /\ reply' = [reply EXCEPT ![c] = NoReply]
    /\ UNCHANGED <<server, spawned, made, asked, done, replaced, left>>

\* Variant for a mutation: nothing but a lost connection ends the waiting.
NoTimeout(c) == stage[c] = "cut" /\ Fails(c) /\ UNCHANGED owner

\* Five seconds pass without the socket, or without the lock; or the
\* connection closes before an answer, its coordinator gone.
GiveUp(c) ==
    /\ \/ stage[c] = "waiting" /\ ~Serving
       \/ stage[c] = "unlocking" /\ owner # Nobody
       \/ stage[c] = "cut"
    /\ Fails(c) /\ UNCHANGED owner

Older(c) == reply[c].version # VersionOf[c] /\ Top(c).command # "restart"

\* The answer is from another version.  Only an older coordinator is
\* replaced, and only by a call that may.
Replace(c) ==
    /\ stage[c] = "answered" /\ Older(c)
    /\ reply[c].version < VersionOf[c] /\ Top(c).may /\ Len(calls[c]) < Depth
    /\ calls' = [calls EXCEPT ![c] = Append(@, Call("restart", FALSE))]
    /\ stage' = [stage EXCEPT ![c] = "connect"]
    /\ reply' = [reply EXCEPT ![c] = NoReply] /\ UNCHANGED <<server, owner, spawned, made, asked, done, replaced, left, outcome>>

Refused(c) ==
    /\ stage[c] = "answered"
    /\ \/ Older(c) /\ (reply[c].version < VersionOf[c] => ~Top(c).may \/ Len(calls[c]) = Depth)
       \/ ~Older(c) /\ ~reply[c].ok
    /\ Fails(c) /\ UNCHANGED owner

\* The coordinator agreed to go: wait for its lock to come free.
AwaitRelease(c) ==
    /\ stage[c] = "answered" /\ Top(c).command = "restart" /\ reply[c].ok
    /\ stage' = [stage EXCEPT ![c] = "unlocking"]
    /\ reply' = [reply EXCEPT ![c] = NoReply] /\ UNCHANGED <<server, owner, spawned, calls, made, asked, done, replaced, left, outcome>>

\* The probe takes the lock for a moment, so a coordinator that starts in that
\* moment finds it held.
Probe(c) ==
    /\ stage[c] = "unlocking" /\ owner = Nobody
    /\ owner' = c /\ stage' = [stage EXCEPT ![c] = "holding"]
    /\ UNCHANGED <<server, spawned, calls, reply, made, asked, done, replaced, left, outcome>>

\* The lock is dropped and a new request, in place of the restart, starts the
\* installed executable.
Reopen(c) ==
    /\ stage[c] = "holding"
    /\ owner' = Nobody /\ stage' = [stage EXCEPT ![c] = "connect"]
    /\ calls' = [calls EXCEPT ![c] = Append(Below(c), Call("snapshot", TRUE))]
    /\ UNCHANGED <<server, spawned, reply, made, asked, done, replaced, left, outcome>>

\* A call succeeds.  The call that waited for it sends its own command again,
\* this time without a restart in hand.
Return(c) ==
    /\ stage[c] = "answered" /\ ~Older(c) /\ reply[c].ok /\ Top(c).command # "restart"
    /\ LET waiting == Below(c) IN
       IF waiting = <<>>
       THEN /\ calls' = [calls EXCEPT ![c] = <<>>]
            /\ stage' = [stage EXCEPT ![c] = "idle"]
            /\ outcome' = [outcome EXCEPT ![c] = "ok"]
       ELSE /\ calls' = [calls EXCEPT ![c] = [waiting EXCEPT ![Len(waiting)].may = FALSE]]
            /\ stage' = [stage EXCEPT ![c] = "connect"]
            /\ UNCHANGED outcome
    /\ reply' = [reply EXCEPT ![c] = NoReply] /\ UNCHANGED <<server, owner, spawned, made, asked, done, replaced, left>>

Client(c) ==
    \/ Connect(c) \/ WaitForSocket(c) \/ GiveUp(c) \/ Replace(c) \/ Refused(c)
    \/ AwaitRelease(c) \/ Probe(c) \/ Reopen(c) \/ Return(c)

---------------------------------------------------------------------------
(* The coordinator. *)

\* A started process takes the lock or ends at once; with the lock it removes
\* a socket left behind and listens on its own.
Start(c) ==
    /\ c \in spawned /\ spawned' = spawned \ {c}
    /\ \/ /\ owner = Nobody
          /\ owner' = Server /\ server' = [version |-> BinaryOf[c], state |-> "starting"]
       \/ owner # Nobody /\ UNCHANGED <<owner, server>>
    /\ UNCHANGED <<calls, stage, reply, made, asked, done, replaced, left, outcome>>

Listen ==
    /\ server.state = "starting" /\ server' = [server EXCEPT !.state = "serving"]
    /\ UNCHANGED <<owner, spawned, calls, stage, reply, made, asked, done, replaced, left, outcome>>

\* Whether the coordinator takes a command of a copy: its own version's, and a
\* restart from any.
Accepts(c) == Top(c).command = "restart" \/ VersionOf[c] = server.version

\* Clients whose connection is open when the coordinator goes are cut off.
CutOff(stages) == [d \in Clients |-> IF stages[d] = "sent" THEN "cut" ELSE stages[d]]

\* One request: carried out, refused by the command's own checks (a restart is
\* refused while jobs or stores are active), or not understood.
Serve(c) ==
    /\ stage[c] = "sent" /\ Serving
    /\ \E ok \in IF Accepts(c) THEN BOOLEAN ELSE {FALSE} :
       LET answered == [stage EXCEPT ![c] = "answered"]
           leaves   == ok /\ Top(c).command = "restart" IN
       /\ reply' = [reply EXCEPT ![c] = [version |-> server.version, ok |-> ok]]
       /\ done' = [done EXCEPT ![c] = IF ok /\ Top(c).command = "work" THEN @ + 1 ELSE @]
       /\ replaced' = [replaced EXCEPT ![c] = IF leaves /\ Len(calls[c]) > 1 THEN @ + 1 ELSE @]
       /\ stage' = IF leaves THEN CutOff(answered) ELSE answered
       /\ server' = IF leaves THEN [server EXCEPT !.state = "leaving"] ELSE server
    /\ UNCHANGED <<owner, spawned, calls, made, asked, left, outcome>>

\* The socket file goes first, the lock with the process.
Leave ==
    /\ server.state = "leaving"
    /\ server' = [version |-> 0, state |-> "none"] /\ owner' = Nobody
    /\ UNCHANGED <<spawned, calls, stage, reply, made, asked, done, replaced, left, outcome>>

\* Idle for a minute, or killed.
Vanish ==
    /\ server.state \in {"starting", "serving"} /\ left > 0
    /\ left' = left - 1 /\ stage' = CutOff(stage)
    /\ server' = [version |-> 0, state |-> "none"] /\ owner' = Nobody
    /\ UNCHANGED <<spawned, calls, reply, made, asked, done, replaced, outcome>>

ExchangeNext ==
    \/ \E c \in Clients : Ask(c) \/ Client(c) \/ Start(c) \/ Serve(c)
    \/ Listen \/ Leave \/ Vanish

\* Every thread and process of the exchange goes on; nobody has to ask.
Runs(c) == Client(c) \/ Start(c) \/ Serve(c) \/ Listen \/ Leave

ExchangeSpec ==
    ExchangeInit /\ [][ExchangeNext]_exchange /\ \A c \in Clients : WF_exchange(Runs(c))

---------------------------------------------------------------------------
(* Properties *)

ExchangeOK ==
    /\ server \in [version : 0 .. 9, state : {"none", "starting", "serving", "leaving"}]
    /\ owner \in {Nobody, Server} \cup Clients /\ spawned \subseteq Clients
    /\ stage \in [Clients -> {"idle", "connect", "waiting", "sent", "answered", "unlocking",
                             "holding", "cut"}]
    /\ (owner = Server) = (server.state # "none")
    /\ \A c \in Clients : (stage[c] = "idle") = (calls[c] = <<>>) /\ Len(calls[c]) < Depth

\* A command is carried out at most once however many coordinators its
\* request went through, and a request that reports success was carried out:
\* a command sent again after a replacement is one the first coordinator
\* refused (client.rs:139-142, service.rs:1676).
DoneOnce ==
    \A c \in Clients :
        /\ done[c] <= 1
        /\ outcome[c] = "ok" /\ asked[c] = "work" => done[c] = 1

\* Every request ends: no copy waits for a lock, a socket or an answer for
\* ever, whatever the others do.
RequestsEnd == \A c \in Clients : stage[c] # "idle" ~> stage[c] = "idle"

\* What the comment says: a request restarts a coordinator from an older
\* version once (client.rs:66).
OneReplacement == \A c \in Clients : replaced[c] <= 1

\* No request is carried out twice or reported as done when it was not, and each ends.
RequestsHonoured == [](ExchangeOK /\ DoneOnce) /\ RequestsEnd
================================================================================
