------------------------------- MODULE Lifecycle -------------------------------
(***************************************************************************)
(* The processes around the server, and what outlives each of them: the    *)
(* command line interface (cli.c) with the FIFO it writes to, the          *)
(* producers with their queue (mq_util.c), and a server that is ended and  *)
(* started again.  A pipe keeps its bytes as long as some process has one  *)
(* of its ends open; the message queue is never unlinked.                  *)
(*                                                                         *)
(* A line is a sequence of words; the end of the line is part of its last  *)
(* word, or a word of its own, EOL, after a space.                         *)
(***************************************************************************)
EXTENDS Integers, Sequences, SequencesExt, FiniteSetsExt

CONSTANTS
    Lines,          \* lines the operator may type; <<>> is the end of the input
    Producer,       \* producer processes
    BufWords,       \* words that fit in the CLI's buffer
    MaxCliFd,       \* descriptors the CLI may hold (RLIMIT_NOFILE)
    FifoCap,        \* commands that fit in the FIFO
    QUEUE_MAXMSG,   \* messages that fit in the queue
    MaxLines,       \* bound on the lines typed
    MaxMsgs,        \* bound on the messages of a producer
    MaxLives        \* bound on the starts of the server

ASSUME LifecycleAssumption ==
    /\ Lines \subseteq Seq(STRING)
    /\ BufWords \in Nat /\ MaxCliFd \in Nat
    /\ FifoCap \in Nat /\ QUEUE_MAXMSG \in Nat
    /\ MaxLines \in Nat /\ MaxMsgs \in Nat /\ MaxLives \in Nat

VARIABLES
    server,     \* "down", or what its loop does next: "cli" or "mq"
    lives,      \* starts of the server
    cli,        \* "dead", or at "open", "read" (fgets) or "write"
    fd,         \* open returned a descriptor
    leaked,     \* descriptors that were not closed
    stdin,      \* what is left of the line being read
    fifo,       \* commands in the FIFO, each with its number
    created,    \* the message queue exists
    mq,         \* messages in the queue: <<producer, number>>
    prod,       \* a producer: "join", "run" or "dead"
    count,      \* messages a producer has sent
    typed,      \* history: lines read
    given,      \* history: commands that were accepted
    got,        \* history: commands read by the servers, by number
    heard,      \* history: messages received by the servers
    gap         \* history: a process ended with nobody at the other end

cliVars  == <<cli, fd, leaked, stdin, typed, given>>
prodVars == <<prod, count>>
vars == <<server, lives, fifo, created, mq, got, heard, gap, cliVars, prodVars>>

EOL == "\n"

Init ==
    /\ server = "down" /\ lives = 0
    /\ cli = "dead" /\ fd = FALSE /\ leaked = 0 /\ stdin = <<>>
    /\ fifo = <<>> /\ created = FALSE /\ mq = <<>>
    /\ prod = [p \in Producer |-> "join"]
    /\ count = [p \in Producer |-> 0]
    /\ typed = <<>> /\ given = <<>> /\ got = <<>> /\ heard = <<>>
    /\ gap = FALSE

-----------------------------------------------------------------------------
(* The command line interface.                                             *)

\* atoi of what is not a number is 0.
atoi(word) == IF word \in {"1", "2"} THEN IF word = "1" THEN 1 ELSE 2 ELSE 0

Bad == [type |-> "bad"]

\* Mutant: a fourth word is not counted.
Bug_parse_command(words) ==
    CASE Len(words) >= 3 /\ words[1] \in {"add", "delete"} ->
            [type |-> words[1], socket |-> atoi(words[2]), productor |-> atoi(words[3])]
      [] Len(words) = 2 /\ words[1] = "log" ->
            [type |-> "log", socket |-> atoi(words[2])]
      [] OTHER -> Bad

\* parse_command.  "log" leaves productor as it was; nobody looks at it.
parse_command(words) ==
    CASE Len(words) = 3 /\ words[1] \in {"add", "delete"} ->
            [type |-> words[1], socket |-> atoi(words[2]), productor |-> atoi(words[3])]
      [] Len(words) = 2 /\ words[1] = "log" ->
            [type |-> "log", socket |-> atoi(words[2])]
      [] OTHER -> Bad

\* The CLI has a writing end of the FIFO open.
CliHolds == leaked > 0 \/ (cli \in {"read", "write"} /\ fd)

CliStart ==
    /\ cli = "dead" /\ Len(typed) < MaxLines
    /\ cli' = "open" /\ fd' = FALSE /\ leaked' = 0 /\ stdin' = <<>>
    /\ UNCHANGED <<server, lives, fifo, created, mq, got, heard, gap, prodVars, typed, given>>

\* open(myfifo, O_WRONLY): with no descriptor left it fails, and else it waits
\* for a reader.
CliOpen ==
    /\ cli = "open"
    /\ \/ leaked = MaxCliFd /\ fd' = FALSE
       \/ leaked < MaxCliFd /\ server # "down" /\ fd' = TRUE
    /\ cli' = "read"
    /\ UNCHANGED <<server, lives, fifo, created, mq, got, heard, gap, prodVars,
                   leaked, stdin, typed, given>>

\* fgets of a line, or of the rest of one that did not fit in the buffer; a bad
\* command goes back to open and leaves the descriptor as it is.
CliRead ==
    /\ cli = "read" /\ Len(typed) < MaxLines
    /\ \E line \in IF stdin = <<>> THEN Lines ELSE {stdin} :
         LET words == SubSeq(line, 1, Min({BufWords, Len(line)}))
             cmd   == parse_command(words)
         IN  /\ stdin' = SubSeq(line, BufWords + 1, Len(line))
             /\ typed' = Append(typed, words)
             /\ \/ /\ cmd = Bad
                   /\ leaked' = IF fd THEN leaked + 1 ELSE leaked
                   /\ cli' = "open"
                   /\ UNCHANGED given
                \/ /\ cmd # Bad
                   /\ given' = Append(given, cmd)
                   /\ cli' = "write"
                   /\ UNCHANGED leaked
    /\ UNCHANGED <<server, lives, fifo, created, mq, got, heard, gap, prodVars, fd>>

\* The CLI ends: its descriptors are closed, and a FIFO with no end is emptied.
CliEnds ==
    /\ cli' = "dead" /\ leaked' = 0 /\ fd' = FALSE /\ stdin' = <<>>
    /\ fifo' = IF server = "down" THEN <<>> ELSE fifo
    /\ gap' = (gap \/ cli = "write" \/ server = "down")

\* Mutant: close is forgotten after the write, too.
Bug_CliWrite ==
    /\ cli = "write" /\ server # "down"
    /\ fd => Len(fifo) < FifoCap
    /\ fifo' = IF fd THEN Append(fifo, Len(given)) ELSE fifo
    /\ leaked' = IF fd THEN leaked + 1 ELSE leaked
    /\ cli' = "open"
    /\ UNCHANGED <<gap, fd, stdin, server, lives, created, mq, got, heard, prodVars, typed, given>>

\* write and close.  EBADF without a descriptor; it waits while the FIFO is full;
\* SIGPIPE, and the end of the CLI, when there is no reader any more.
CliWrite ==
    /\ cli = "write"
    /\ \/ /\ fd /\ server # "down" /\ Len(fifo) < FifoCap
          /\ fifo' = Append(fifo, Len(given))
          /\ cli' = "open" /\ fd' = FALSE
          /\ UNCHANGED <<gap, leaked, stdin>>
       \/ /\ fd /\ server = "down"
          /\ CliEnds
       \/ /\ ~fd
          /\ cli' = "open"
          /\ UNCHANGED <<fifo, gap, fd, leaked, stdin>>
    /\ UNCHANGED <<server, lives, created, mq, got, heard, prodVars, typed, given>>

CliKill ==
    /\ cli # "dead"
    /\ CliEnds
    /\ UNCHANGED <<server, lives, created, mq, got, heard, prodVars, typed, given>>

CliStep == CliOpen \/ CliWrite

-----------------------------------------------------------------------------
(* The producers.                                                          *)

\* join_existing_mq tries every two seconds until the queue exists.
Join(p) ==
    /\ prod[p] = "join" /\ created
    /\ prod' = [prod EXCEPT ![p] = "run"]
    /\ UNCHANGED <<server, lives, fifo, created, mq, got, heard, gap, cliVars, count>>

\* mq_send waits while the queue is full, whether or not there is a server.
MqSend(p) ==
    /\ prod[p] = "run" /\ count[p] < MaxMsgs /\ Len(mq) < QUEUE_MAXMSG
    /\ mq' = Append(mq, <<p, count[p] + 1>>)
    /\ count' = [count EXCEPT ![p] = @ + 1]
    /\ UNCHANGED <<server, lives, fifo, created, got, heard, gap, cliVars, prod>>

handle_SIGTERM(p) ==
    /\ prod[p] # "dead"
    /\ prod' = [prod EXCEPT ![p] = "dead"]
    /\ UNCHANGED <<server, lives, fifo, created, mq, got, heard, gap, cliVars, count>>

-----------------------------------------------------------------------------
(* The server.                                                             *)

\* mkfifo fails if the FIFO exists, and that is ignored; mq_open with O_CREAT
\* opens the queue of before, with its messages.
Start ==
    /\ server = "down" /\ lives < MaxLives
    /\ server' = "cli" /\ lives' = lives + 1
    /\ created' = TRUE
    /\ UNCHANGED <<fifo, mq, got, heard, gap, cliVars, prodVars>>

\* Mutant: the queue is unlinked when the server ends.
Bug_Die ==
    /\ server # "down"
    /\ server' = "down"
    /\ fifo' = IF CliHolds THEN fifo ELSE <<>>
    /\ gap' = (gap \/ ~CliHolds)
    /\ created' = FALSE /\ mq' = <<>>
    /\ UNCHANGED <<lives, got, heard, cliVars, prodVars>>

\* The server ends, in any way: nothing is unlinked.
Die ==
    /\ server # "down"
    /\ server' = "down"
    /\ fifo' = IF CliHolds THEN fifo ELSE <<>>
    /\ gap' = (gap \/ ~CliHolds)
    /\ UNCHANGED <<lives, created, mq, got, heard, cliVars, prodVars>>

\* Mutant: an iteration that had no command does not get to the queue.
Bug_PollCli ==
    /\ server = "cli" /\ fifo # <<>>
    /\ got' = Append(got, Head(fifo)) /\ fifo' = Tail(fifo)
    /\ server' = "mq"
    /\ UNCHANGED <<lives, created, mq, heard, gap, cliVars, prodVars>>

\* One read of the FIFO per iteration of the loop.
PollCli ==
    /\ server = "cli"
    /\ \/ fifo = <<>> /\ UNCHANGED <<got, fifo>>
       \/ fifo # <<>> /\ got' = Append(got, Head(fifo)) /\ fifo' = Tail(fifo)
    /\ server' = "mq"
    /\ UNCHANGED <<lives, created, mq, heard, gap, cliVars, prodVars>>

\* One mq_receive per iteration.
MqReceive ==
    /\ server = "mq"
    /\ \/ mq = <<>> /\ UNCHANGED <<mq, heard>>
       \/ mq # <<>> /\ heard' = Append(heard, Head(mq)) /\ mq' = Tail(mq)
    /\ server' = "cli"
    /\ UNCHANGED <<lives, fifo, created, got, gap, cliVars, prodVars>>

ServerStep == PollCli \/ MqReceive

Next ==
    \/ CliStart \/ CliRead \/ CliKill \/ CliStep
    \/ \E p \in Producer : Join(p) \/ MqSend(p) \/ handle_SIGTERM(p)
    \/ Start \/ Die \/ ServerStep

Spec == Init /\ [][Next]_vars

\* The server's loop never blocks; the CLI and a producer run when the call they
\* are in returns.  Nobody has to type, to start or to end anything.
FairSpec ==
    /\ Spec
    /\ WF_vars(ServerStep) /\ WF_vars(CliStep)
    /\ \A p \in Producer : WF_vars(Join(p)) /\ WF_vars(MqSend(p))

-----------------------------------------------------------------------------
(* What should be true.                                                    *)

CommandType ==
    [type : {"add", "delete"}, socket : 0 .. 2, productor : 0 .. 2]
        \cup [type : {"log"}, socket : 0 .. 2]

TypeOK ==
    /\ server \in {"down", "cli", "mq"} /\ lives \in 0 .. MaxLives
    /\ cli \in {"dead", "open", "read", "write"}
    /\ fd \in BOOLEAN /\ leaked \in 0 .. MaxCliFd
    /\ Len(fifo) <= FifoCap /\ ToSet(fifo) \subseteq DOMAIN given
    /\ Len(mq) <= QUEUE_MAXMSG /\ ToSet(mq) \subseteq Producer \X (1 .. MaxMsgs)
    /\ created \in BOOLEAN /\ gap \in BOOLEAN
    /\ prod \in [Producer -> {"join", "run", "dead"}]
    /\ count \in [Producer -> 0 .. MaxMsgs]
    /\ given \in Seq(CommandType) /\ Len(given) <= Len(typed)
    /\ ToSet(got) \subseteq DOMAIN given
    /\ ToSet(heard) \subseteq Producer \X (1 .. MaxMsgs)

\* The three forms the README allows; what is left of a line that did not fit
\* in the buffer may be one of them, too.
Form(words) ==
    \/ Len(words) = 3 /\ words[1] \in {"add", "delete"}
    \/ Len(words) = 2 /\ words[1] = "log"

\* The verb, the token and the producer of a command are those typed.
Means(cmd, words) ==
    /\ cmd.type = words[1]
    /\ cmd.socket = atoi(words[2])
    /\ cmd.type # "log" => cmd.productor = atoi(words[3])

\* The commands accepted are those of the forms typed, in their order, each with
\* the verb, the token and the producer that were typed in it.
CommandsAsTyped ==
    /\ TypeOK
    /\ \E line \in [DOMAIN given -> DOMAIN typed] :
         /\ \A i, j \in DOMAIN given : i < j => line[i] < line[j]
         /\ \A k \in DOMAIN typed :
              Form(typed[k]) <=> \E i \in DOMAIN given : line[i] = k
         /\ \A i \in DOMAIN given : Means(given[i], typed[line[i]])

\* Lines that were not accepted, since the first start of the CLI.
BadLines == Len(typed) - Len(given)

\* The command being written, if any.
Pending == IF cli = "write" THEN <<Len(given)>> ELSE <<>>

\* Commands are read in the order given and at most once, by whatever server.
\* None is lost while fewer bad lines were typed than there are descriptors and
\* neither end of the FIFO was left alone, however often the server restarts:
\* the CLI opens the FIFO before it waits for a line.
CommandsReachOnce ==
    /\ \A i, j \in DOMAIN got : i < j => got[i] < got[j]
    /\ ~gap /\ BadLines < MaxCliFd =>
           got \o fifo \o Pending = [i \in DOMAIN given |-> i]

\* Restarts of the server neither lose nor repeat nor reorder the messages of
\* a producer: what the servers have received, then what is in the queue.
MessagesSurvive ==
    LET all == heard \o mq
    IN  /\ \A i, j \in DOMAIN all :
             i < j /\ all[i][1] = all[j][1] => all[i][2] < all[j][2]
        /\ \A p \in Producer : \A n \in 1 .. count[p] : <<p, n>> \in ToSet(all)
        /\ \A i \in DOMAIN all : all[i][2] <= count[all[i][1]]

CliServed == cli \in {"open", "write"} ~> cli \in {"read", "dead"} \/ server = "down"

MessagesHeard ==
    \A p \in Producer : \A n \in 1 .. MaxMsgs :
        <<p, n>> \in ToSet(mq) ~> <<p, n>> \in ToSet(heard) \/ server = "down"

ProducersJoin == \A p \in Producer : created ~> prod[p] # "join"

\* While the server runs the CLI gets back to its next line and a message in the
\* queue is received, whichever process was started or ended in what order; and
\* a producer that was started first finds the queue once the server has been
\* up, even if it is not any more.
EveryoneServed == CliServed /\ MessagesHeard /\ ProducersJoin
=============================================================================
