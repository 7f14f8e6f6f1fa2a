--------------------------- MODULE LifecycleProofs ---------------------------
(***************************************************************************)
(* What the operator types reaches the servers as it was typed, in order   *)
(* and at most once, and what the producers send survives any restart, for *)
(* any lines, buffers and queues and any number of restarts.               *)
(***************************************************************************)
EXTENDS Lifecycle, SequenceTheorems, TLAPS

Message == Producer \X (1 .. MaxMsgs)

-----------------------------------------------------------------------------
(* Sequences.                                                              *)

\* What has been read and what waits to be read: a queue that is read changes
\* nothing.
LEMMA ReadQueue ==
    ASSUME NEW S, NEW a \in Seq(S), NEW b \in Seq(S), b # <<>>
    PROVE  /\ Append(a, Head(b)) \in Seq(S) /\ Tail(b) \in Seq(S)
           /\ Len(Tail(b)) = Len(b) - 1
           /\ Append(a, Head(b)) \o Tail(b) = a \o b
<1>1. /\ Head(b) \in S /\ Head(b) = b[1] /\ Tail(b) \in Seq(S) /\ Len(Tail(b)) = Len(b) - 1
      /\ \A i \in 1 .. Len(Tail(b)) : Tail(b)[i] = b[i + 1]
    BY HeadTailProperties
<1>2. /\ Append(a, Head(b)) \in Seq(S) /\ Len(Append(a, Head(b))) = Len(a) + 1
      /\ \A i \in 1 .. Len(a) : Append(a, Head(b))[i] = a[i]
      /\ Append(a, Head(b))[Len(a) + 1] = Head(b)
    BY <1>1, AppendProperties
<1>3. Len(a) \in Nat /\ Len(b) \in Nat
    OBVIOUS
<1> DEFINE c == Append(a, Head(b))
           d == Tail(b)
<1>4. /\ c \o d \in Seq(S) /\ Len(c \o d) = Len(c) + Len(d)
      /\ \A i \in 1 .. Len(c) + Len(d) :
            (c \o d)[i] = IF i <= Len(c) THEN c[i] ELSE d[i - Len(c)]
    BY <1>1, <1>2, ConcatProperties
<1>5. /\ a \o b \in Seq(S) /\ Len(a \o b) = Len(a) + Len(b)
      /\ \A i \in 1 .. Len(a) + Len(b) :
            (a \o b)[i] = IF i <= Len(a) THEN a[i] ELSE b[i - Len(a)]
    BY ConcatProperties
<1> HIDE DEF c, d
<1>6. Len(c) = Len(a) + 1 /\ Len(d) = Len(b) - 1
    BY <1>1, <1>2 DEF c, d
<1>7. \A i \in 1 .. Len(a) + Len(b) : (c \o d)[i] = (a \o b)[i]
    <2> TAKE i \in 1 .. Len(a) + Len(b)
    <2>1. CASE i <= Len(a)
        BY <1>2, <1>3, <1>4, <1>5, <1>6, <2>1 DEF c
    <2>2. CASE i = Len(a) + 1
        BY <1>1, <1>2, <1>3, <1>4, <1>5, <1>6, <2>2 DEF c
    <2>3. CASE i > Len(a) + 1
        <3>1. i - (Len(a) + 1) \in 1 .. Len(d) /\ (i - (Len(a) + 1)) + 1 = i - Len(a)
            BY <1>3, <1>6, <2>3
        <3>2. d[i - (Len(a) + 1)] = b[i - Len(a)]
            BY <1>1, <3>1 DEF d
        <3>3. (c \o d)[i] = d[i - (Len(a) + 1)]
            BY <1>3, <1>4, <1>6, <2>3
        <3>4. (a \o b)[i] = b[i - Len(a)]
            BY <1>3, <1>5, <2>3
        <3> QED
            BY ONLY <3>2, <3>3, <3>4
    <2>4. i <= Len(a) \/ i = Len(a) + 1 \/ i > Len(a) + 1
        BY <1>3
    <2> QED
        BY ONLY <2>1, <2>2, <2>3, <2>4
<1>8. c \o d = a \o b
    <2>1. Len(c \o d) = Len(a \o b) /\ 1 .. Len(c \o d) = 1 .. Len(a) + Len(b)
        BY <1>3, <1>4, <1>5, <1>6
    <2> QED
        BY ONLY <1>4, <1>5, <1>7, <2>1, SeqEqual
<1> QED
    BY <1>1, <1>2, <1>8 DEF c, d

\* A queue that is written: the element comes last.
LEMMA WriteQueue ==
    ASSUME NEW S, NEW a \in Seq(S), NEW b \in Seq(S), NEW e \in S
    PROVE  /\ Append(b, e) \in Seq(S) /\ Len(Append(b, e)) = Len(b) + 1
           /\ a \o b \in Seq(S) /\ a \o Append(b, e) \in Seq(S)
           /\ DOMAIN (a \o b) = 1 .. Len(a) + Len(b)
           /\ DOMAIN (a \o Append(b, e)) = 1 .. Len(a) + Len(b) + 1
           /\ \A i \in 1 .. Len(a) + Len(b) : (a \o Append(b, e))[i] = (a \o b)[i]
           /\ (a \o Append(b, e))[Len(a) + Len(b) + 1] = e
<1> DEFINE c == Append(b, e)
<1>1. /\ c \in Seq(S) /\ Len(c) = Len(b) + 1
      /\ \A i \in 1 .. Len(b) : c[i] = b[i]
      /\ c[Len(b) + 1] = e
    BY AppendProperties
<1> HIDE DEF c
<1>2. /\ a \o c \in Seq(S) /\ Len(a \o c) = Len(a) + Len(c)
      /\ \A i \in 1 .. Len(a) + Len(c) :
            (a \o c)[i] = IF i <= Len(a) THEN a[i] ELSE c[i - Len(a)]
    BY <1>1, ConcatProperties
<1>3. /\ a \o b \in Seq(S) /\ Len(a \o b) = Len(a) + Len(b)
      /\ \A i \in 1 .. Len(a) + Len(b) :
            (a \o b)[i] = IF i <= Len(a) THEN a[i] ELSE b[i - Len(a)]
    BY ConcatProperties
<1>4. Len(a) \in Nat /\ Len(b) \in Nat
    OBVIOUS
<1>5. DOMAIN (a \o b) = 1 .. Len(a) + Len(b) /\ DOMAIN (a \o c) = 1 .. Len(a) + Len(b) + 1
    BY <1>1, <1>2, <1>3, <1>4
<1>6. \A i \in 1 .. Len(a) + Len(b) : (a \o c)[i] = (a \o b)[i]
    BY <1>1, <1>2, <1>3, <1>4
<1>7. (a \o c)[Len(a) + Len(b) + 1] = e
    BY <1>1, <1>2, <1>4
<1> QED
    BY <1>1, <1>2, <1>3, <1>5, <1>6, <1>7 DEF c

\* The elements of a queue.
LEMMA QueueElements ==
    ASSUME NEW S, NEW a \in Seq(S), NEW b \in Seq(S)
    PROVE  /\ a \o b \in Seq(S) /\ Len(a) \in Nat /\ Len(b) \in Nat
           /\ DOMAIN (a \o b) = 1 .. Len(a) + Len(b)
           /\ DOMAIN a = 1 .. Len(a) /\ DOMAIN b = 1 .. Len(b)
           /\ \A i \in 1 .. Len(a) : (a \o b)[i] = a[i]
           /\ \A i \in 1 .. Len(b) : (a \o b)[Len(a) + i] = b[i]
<1>1. /\ a \o b \in Seq(S) /\ Len(a \o b) = Len(a) + Len(b)
      /\ \A i \in 1 .. Len(a) + Len(b) :
            (a \o b)[i] = IF i <= Len(a) THEN a[i] ELSE b[i - Len(a)]
    BY ConcatProperties
<1>2. Len(a) \in Nat /\ Len(b) \in Nat
    OBVIOUS
<1>3. \A i \in 1 .. Len(b) : (a \o b)[Len(a) + i] = b[i]
    <2> TAKE i \in 1 .. Len(b)
    <2>1. Len(a) + i \in 1 .. Len(a) + Len(b) /\ ~(Len(a) + i <= Len(a))
          /\ (Len(a) + i) - Len(a) = i
        BY <1>2
    <2> QED
        BY <1>1, <2>1
<1> QED
    BY <1>1, <1>2, <1>3

\* fgets: what fits in the buffer and the rest of the line.
LEMMA FgetsParts ==
    ASSUME NEW line \in Seq(STRING), BufWords \in Nat
    PROVE  /\ SubSeq(line, 1, Min({BufWords, Len(line)})) \in Seq(STRING)
           /\ SubSeq(line, BufWords + 1, Len(line)) \in Seq(STRING)
<1>1. Len(line) \in Nat /\ \A i \in 1 .. Len(line) : line[i] \in STRING
    OBVIOUS
<1> DEFINE n == Min({BufWords, Len(line)})
<1>2. n \in Nat /\ n <= Len(line)
    <2> DEFINE S == {BufWords, Len(line)}
    <2>1. \E x \in S : \A y \in S : x <= y
        BY <1>1
    <2>2. Min(S) \in S /\ \A y \in S : Min(S) <= y
        BY <2>1 DEF Min
    <2> QED
        BY <1>1, <2>2
<1> HIDE DEF n
<1>3. \A i \in 1 .. n : line[i] \in STRING
    BY <1>1, <1>2
<1>4. \A i \in BufWords + 1 .. Len(line) : line[i] \in STRING
    BY <1>1
<1>5. SubSeq(line, 1, n) \in Seq(STRING)
    <2>1. n \in Int /\ 1 \in Int
        BY <1>2
    <2> QED
        BY ONLY <1>3, <2>1, SubSeqProperties
<1>6. SubSeq(line, BufWords + 1, Len(line)) \in Seq(STRING)
    BY <1>1, <1>4, SubSeqProperties
<1> QED
    BY <1>5, <1>6 DEF n

-----------------------------------------------------------------------------
(* Commands.                                                               *)

\* parse_command accepts the three forms and nothing else, and takes from a line
\* what was typed in it.
LEMMA ParseForms ==
    ASSUME NEW words \in Seq(STRING)
    PROVE  /\ parse_command(words) # Bad <=> Form(words)
           /\ Form(words) => /\ parse_command(words) \in CommandType
                             /\ Means(parse_command(words), words)
<1>0. Bad.type = "bad"
    BY DEF Bad
<1>1. \A w : atoi(w) \in 0 .. 2
    BY DEF atoi
<1>2. CASE Len(words) = 3 /\ words[1] \in {"add", "delete"}
    <2> DEFINE cmd == [type |-> words[1], socket |-> atoi(words[2]),
                       productor |-> atoi(words[3])]
    <2>1. parse_command(words) = cmd
        BY <1>2 DEF parse_command
    <2>2. /\ cmd.type = words[1] /\ cmd.type # "bad"
          /\ cmd.socket = atoi(words[2]) /\ cmd.productor = atoi(words[3])
        BY <1>2
    <2>3. cmd \in CommandType
        BY <1>1, <1>2 DEF CommandType
    <2> HIDE DEF cmd
    <2> QED
        BY <1>0, <1>2, <2>1, <2>2, <2>3 DEF Form, Means
<1>3. CASE Len(words) = 2 /\ words[1] = "log"
    <2> DEFINE cmd == [type |-> "log", socket |-> atoi(words[2])]
    <2>1. parse_command(words) = cmd
        BY <1>3 DEF parse_command
    <2>2. cmd.type = "log" /\ cmd.type # "bad" /\ cmd.socket = atoi(words[2])
        OBVIOUS
    <2>3. cmd \in CommandType
        BY <1>1 DEF CommandType
    <2> HIDE DEF cmd
    <2> QED
        BY <1>0, <1>3, <2>1, <2>2, <2>3 DEF Form, Means
<1>4. CASE ~Form(words)
    BY <1>4 DEF parse_command, Form
<1> QED
    BY <1>2, <1>3, <1>4 DEF Form

-----------------------------------------------------------------------------
(* Types.                                                                  *)

OperatorTypes ==
    /\ cli \in {"dead", "open", "read", "write"}
    /\ fd \in BOOLEAN /\ leaked \in 0 .. MaxCliFd
    /\ stdin \in Seq(STRING) /\ typed \in Seq(Seq(STRING))
    /\ given \in Seq(CommandType)

FifoTypes ==
    /\ fifo \in Seq(Nat) /\ Len(fifo) <= FifoCap /\ got \in Seq(Nat)
    /\ gap \in BOOLEAN /\ created \in BOOLEAN
    /\ server \in {"down", "cli", "mq"} /\ lives \in 0 .. MaxLives

QueueTypes ==
    /\ mq \in Seq(Message) /\ Len(mq) <= QUEUE_MAXMSG /\ heard \in Seq(Message)
    /\ prod \in [Producer -> {"join", "run", "dead"}]
    /\ count \in [Producer -> 0 .. MaxMsgs]

LifeTypes == OperatorTypes /\ FifoTypes /\ QueueTypes

\* While the CLI reads or writes it has a descriptor, unless it has lost them all to
\* bad lines.
Descriptors ==
    /\ cli \in {"read", "write"} => (fd <=> leaked < MaxCliFd)
    /\ cli = "write" => Len(given) > 0
    /\ leaked <= BadLines

\* A line is read: what is typed and what becomes of it.
LEMMA CliReads ==
    ASSUME LifeTypes, CliRead
    PROVE  \E words \in Seq(STRING) :
              /\ cli = "read" /\ typed' = Append(typed, words) /\ stdin' \in Seq(STRING)
              /\ UNCHANGED <<server, lives, fifo, created, mq, got, heard, gap, prodVars, fd>>
              /\ \/ /\ ~Form(words)
                    /\ leaked' = (IF fd THEN leaked + 1 ELSE leaked) /\ cli' = "open"
                    /\ UNCHANGED given
                 \/ /\ Form(words) /\ given' = Append(given, parse_command(words))
                    /\ cli' = "write" /\ UNCHANGED leaked
<1>1. PICK line \in IF stdin = <<>> THEN Lines ELSE {stdin} :
         LET words == SubSeq(line, 1, Min({BufWords, Len(line)}))
             cmd   == parse_command(words)
         IN  /\ stdin' = SubSeq(line, BufWords + 1, Len(line))
             /\ typed' = Append(typed, words)
             /\ \/ /\ cmd = Bad
                   /\ leaked' = IF fd THEN leaked + 1 ELSE leaked
                   /\ cli' = "open"
                   /\ UNCHANGED given
                \/ /\ cmd # Bad
                   /\ given' = Append(given, cmd)
                   /\ cli' = "write"
                   /\ UNCHANGED leaked
    BY DEF CliRead
<1>2. line \in Seq(STRING)
    BY LifecycleAssumption DEF LifeTypes, OperatorTypes
<1> DEFINE words == SubSeq(line, 1, Min({BufWords, Len(line)}))
<1>3. words \in Seq(STRING) /\ stdin' \in Seq(STRING)
    BY <1>1, <1>2, LifecycleAssumption, FgetsParts
<1>4. /\ typed' = Append(typed, words)
      /\ \/ /\ parse_command(words) = Bad
            /\ leaked' = (IF fd THEN leaked + 1 ELSE leaked) /\ cli' = "open"
            /\ UNCHANGED given
         \/ /\ parse_command(words) # Bad /\ given' = Append(given, parse_command(words))
            /\ cli' = "write" /\ UNCHANGED leaked
    BY <1>1
<1> HIDE DEF words
<1>5. parse_command(words) # Bad <=> Form(words)
    BY <1>3, ParseForms
<1> QED
    BY <1>3, <1>4, <1>5 DEF CliRead

LEMMA TypesInit == Init => LifeTypes /\ Descriptors
<1> SUFFICES ASSUME Init PROVE LifeTypes /\ Descriptors
    OBVIOUS
<1>1. OperatorTypes
    <2>1. stdin = <<>> /\ typed = <<>> /\ given = <<>> /\ cli = "dead" /\ fd = FALSE /\ leaked = 0
        BY DEF Init
    <2>2. stdin \in Seq(STRING) /\ typed \in Seq(Seq(STRING)) /\ given \in Seq(CommandType)
        BY ONLY <2>1, EmptySeq, Zenon
    <2>3. leaked \in 0 .. MaxCliFd
        BY <2>1, LifecycleAssumption
    <2>4. fd \in BOOLEAN
        BY ONLY <2>1
    <2> QED
        BY <2>1, <2>2, <2>3, <2>4, Zenon DEF OperatorTypes
<1>3. FifoTypes /\ QueueTypes
    <2>1. fifo = <<>> /\ got = <<>> /\ mq = <<>> /\ heard = <<>>
        BY DEF Init
    <2>2. fifo \in Seq(Nat) /\ got \in Seq(Nat) /\ mq \in Seq(Message) /\ heard \in Seq(Message)
        BY ONLY <2>1, EmptySeq, Zenon
    <2>3. Len(fifo) = 0 /\ Len(mq) = 0
        BY <2>1
    <2>4. FifoTypes
        <3>1. 0 \in 0 .. MaxLives /\ 0 <= FifoCap
            BY LifecycleAssumption
        <3>2. server = "down" /\ lives = 0 /\ gap = FALSE /\ created = FALSE
            BY DEF Init
        <3> QED
            BY ONLY <2>2, <2>3, <3>1, <3>2 DEF FifoTypes
    <2>5. QueueTypes
        BY <2>2, <2>3, LifecycleAssumption DEF Init, QueueTypes
    <2> QED
        BY <2>4, <2>5
<1>2. Descriptors
    BY DEF Init, Descriptors, BadLines
<1> QED
    BY <1>1, <1>2, <1>3 DEF LifeTypes

\* The command line interface keeps the types.
LEMMA CliTypes ==
    ASSUME LifeTypes, Descriptors, CliStart \/ CliOpen \/ CliRead \/ CliWrite \/ CliKill
    PROVE  LifeTypes' /\ Descriptors'
<1>0. /\ Len(typed) \in Nat /\ Len(given) \in Nat /\ Len(fifo) \in Nat /\ leaked \in Nat
      /\ MaxCliFd \in Nat /\ FifoCap \in Nat
    BY LifecycleAssumption DEF LifeTypes, OperatorTypes, FifoTypes
<1>1. UNCHANGED <<mq, heard, prod, count, created, got, server, lives>>
    BY DEF CliStart, CliOpen, CliRead, CliWrite, CliKill, prodVars
<1>2. QueueTypes'
    BY <1>1 DEF LifeTypes, QueueTypes
<1>3. ASSUME fifo' \in Seq(Nat), Len(fifo') <= FifoCap, gap' \in BOOLEAN PROVE FifoTypes'
    BY <1>1, <1>3 DEF LifeTypes, FifoTypes
<1>4. ASSUME UNCHANGED <<fifo, gap>> PROVE FifoTypes'
    BY <1>1, <1>4 DEF LifeTypes, FifoTypes
<1>11. ASSUME cli' \in {"dead", "open"}, fd' = FALSE, leaked' = 0, stdin' = <<>>,
              UNCHANGED <<typed, given>>
       PROVE  OperatorTypes'
    <2>1. stdin' \in Seq(STRING)
        BY ONLY <1>11, EmptySeq, Zenon
    <2>2. leaked' \in 0 .. MaxCliFd
        BY <1>0, <1>11
    <2>3. fd' \in BOOLEAN /\ cli' \in {"dead", "open", "read", "write"}
        BY ONLY <1>11
    <2> QED
        BY <1>11, <2>1, <2>2, <2>3 DEF LifeTypes, OperatorTypes
<1>5. CASE CliStart
    <2>1. OperatorTypes'
        <3>1. /\ cli' = "open" /\ fd' = FALSE /\ leaked' = 0 /\ stdin' = <<>>
              /\ UNCHANGED <<typed, given>>
            BY <1>5 DEF CliStart
        <3> QED
            BY <1>11, <3>1
    <2>2. Descriptors'
        BY <1>0, <1>5 DEF CliStart, LifeTypes, OperatorTypes, Descriptors, BadLines
    <2> QED
        BY <1>2, <1>4, <1>5, <2>1, <2>2 DEF CliStart, LifeTypes
<1>6. CASE CliOpen
    <2>1. OperatorTypes'
        BY <1>0, <1>6 DEF CliOpen, LifeTypes, OperatorTypes
    <2>2. Descriptors'
        BY <1>0, <1>6 DEF CliOpen, LifeTypes, OperatorTypes, Descriptors, BadLines
    <2> QED
        BY <1>2, <1>4, <1>6, <2>1, <2>2 DEF CliOpen, LifeTypes
<1>7. CASE CliRead
    <2>1. PICK words \in Seq(STRING) :
              /\ cli = "read" /\ typed' = Append(typed, words) /\ stdin' \in Seq(STRING)
              /\ UNCHANGED <<server, lives, fifo, created, mq, got, heard, gap, prodVars, fd>>
              /\ \/ /\ ~Form(words)
                    /\ leaked' = (IF fd THEN leaked + 1 ELSE leaked) /\ cli' = "open"
                    /\ UNCHANGED given
                 \/ /\ Form(words) /\ given' = Append(given, parse_command(words))
                    /\ cli' = "write" /\ UNCHANGED leaked
        BY <1>7, CliReads
    <2>2. typed' \in Seq(Seq(STRING)) /\ Len(typed') = Len(typed) + 1
        BY <2>1, AppendProperties DEF LifeTypes, OperatorTypes
    <2>3. FifoTypes'
        BY <1>4, <2>1
    <2>4. CASE ~Form(words)
        <3>1. leaked' \in 0 .. MaxCliFd /\ leaked' <= leaked + 1
            BY <1>0, <2>1, <2>4 DEF LifeTypes, OperatorTypes, Descriptors
        <3>2. OperatorTypes'
            BY <2>1, <2>2, <2>4, <3>1 DEF LifeTypes, OperatorTypes
        <3>3. Descriptors'
            BY <1>0, <2>1, <2>2, <2>4, <3>1 DEF Descriptors, BadLines
        <3> QED
            BY <1>2, <2>3, <3>2, <3>3 DEF LifeTypes
    <2>5. CASE Form(words)
        <3> DEFINE cmd == parse_command(words)
        <3>1. cmd \in CommandType
            BY <2>1, <2>5, ParseForms
        <3>2. given' = Append(given, cmd)
            BY <2>1, <2>5
        <3> HIDE DEF cmd
        <3>3. given' \in Seq(CommandType) /\ Len(given') = Len(given) + 1
            BY <3>1, <3>2, AppendProperties DEF LifeTypes, OperatorTypes
        <3>4. OperatorTypes'
            BY <2>1, <2>2, <2>5, <3>3 DEF LifeTypes, OperatorTypes
        <3>5. Descriptors'
            BY <1>0, <2>1, <2>2, <2>5, <3>3 DEF LifeTypes, OperatorTypes, Descriptors, BadLines
        <3> QED
            BY <1>2, <2>3, <3>4, <3>5 DEF LifeTypes
    <2> QED
        BY <2>4, <2>5
<1>8. ASSUME CliEnds, UNCHANGED <<typed, given>>
      PROVE  LifeTypes' /\ Descriptors'
    <2>1. fifo' \in Seq(Nat) /\ Len(fifo') <= FifoCap /\ gap' \in BOOLEAN
        BY <1>0, <1>8 DEF CliEnds, LifeTypes, FifoTypes
    <2>2. OperatorTypes'
        BY <1>8, <1>11 DEF CliEnds
    <2>3. Descriptors'
        BY <1>0, <1>8 DEF CliEnds, Descriptors, BadLines, LifeTypes, OperatorTypes
    <2> QED
        BY <1>2, <1>3, <2>1, <2>2, <2>3 DEF LifeTypes
<1>9. CASE CliWrite
    <2>1. CASE fd /\ server # "down"
        <3>1. /\ fifo' = Append(fifo, Len(given)) /\ Len(fifo) < FifoCap /\ cli' = "open"
              /\ fd' = FALSE
              /\ UNCHANGED <<gap, leaked, stdin, typed, given>>
            BY <1>9, <2>1 DEF CliWrite
        <3>2. fifo' \in Seq(Nat) /\ Len(fifo') = Len(fifo) + 1
            BY <1>0, <3>1, AppendProperties DEF LifeTypes, FifoTypes
        <3>3. OperatorTypes'
            BY <1>0, <3>1 DEF LifeTypes, OperatorTypes
        <3>4. FifoTypes'
            BY <1>0, <1>3, <3>1, <3>2 DEF LifeTypes, FifoTypes
        <3> QED
            BY <1>2, <3>1, <3>3, <3>4 DEF LifeTypes, Descriptors, BadLines
    <2>2. CASE CliEnds
        BY <1>8, <1>9, <2>2 DEF CliWrite
    <2>3. CASE ~fd
        <3>1. cli' = "open" /\ UNCHANGED <<fifo, gap, fd, leaked, stdin, typed, given>>
            BY <1>9, <2>3 DEF CliWrite
        <3>2. OperatorTypes'
            BY <3>1 DEF LifeTypes, OperatorTypes
        <3> QED
            BY <1>2, <1>4, <3>1, <3>2 DEF LifeTypes, Descriptors, BadLines
    <2> QED
        BY <1>9, <2>1, <2>2, <2>3 DEF CliWrite
<1>10. CASE CliKill
    BY <1>8, <1>10 DEF CliKill
<1> QED
    BY <1>5, <1>6, <1>7, <1>9, <1>10

\* So do the producers and the server.
LEMMA OtherTypes ==
    ASSUME LifeTypes, Descriptors,
           \/ \E p \in Producer : Join(p) \/ MqSend(p) \/ handle_SIGTERM(p)
           \/ Start \/ Die \/ ServerStep \/ UNCHANGED vars
    PROVE  LifeTypes' /\ Descriptors'
<1>1. UNCHANGED <<cli, fd, leaked, stdin, typed, given>>
    BY DEF Join, MqSend, handle_SIGTERM, Start, Die, ServerStep, PollCli, MqReceive, vars, cliVars
<1>2. OperatorTypes' /\ Descriptors'
    BY <1>1 DEF LifeTypes, OperatorTypes, Descriptors, BadLines
<1>3. ASSUME UNCHANGED <<fifo, got, gap, created, server, lives>> PROVE FifoTypes'
    BY <1>3 DEF LifeTypes, FifoTypes
<1>4. ASSUME UNCHANGED <<mq, heard, prod, count>> PROVE QueueTypes'
    BY <1>4 DEF LifeTypes, QueueTypes
<1>5. CASE UNCHANGED vars
    BY <1>2, <1>3, <1>4, <1>5 DEF vars, prodVars, LifeTypes
<1>6. ASSUME NEW p \in Producer, Join(p) \/ handle_SIGTERM(p)
      PROVE  LifeTypes' /\ Descriptors'
    <2>1. QueueTypes'
        BY <1>6 DEF Join, handle_SIGTERM, LifeTypes, QueueTypes
    <2> QED
        BY <1>2, <1>3, <1>6, <2>1 DEF Join, handle_SIGTERM, LifeTypes
<1>7. ASSUME NEW p \in Producer, MqSend(p) PROVE LifeTypes' /\ Descriptors'
    <2>1. /\ count[p] \in Nat /\ count[p] + 1 \in 1 .. MaxMsgs /\ Len(mq) < QUEUE_MAXMSG
          /\ mq' = Append(mq, <<p, count[p] + 1>>)
          /\ count' = [count EXCEPT ![p] = @ + 1] /\ UNCHANGED <<heard, prod>>
        BY <1>7, LifecycleAssumption DEF MqSend, LifeTypes, QueueTypes
    <2>2. <<p, count[p] + 1>> \in Message
        BY <2>1 DEF Message
    <2>3. mq' \in Seq(Message) /\ Len(mq') = Len(mq) + 1 /\ Len(mq) \in Nat
        BY <2>1, <2>2, AppendProperties DEF LifeTypes, QueueTypes
    <2>4. count' \in [Producer -> 0 .. MaxMsgs]
        BY <2>1, LifecycleAssumption DEF LifeTypes, QueueTypes
    <2>5. QueueTypes'
        BY <2>1, <2>3, <2>4, LifecycleAssumption DEF LifeTypes, QueueTypes
    <2> QED
        BY <1>2, <1>3, <1>7, <2>5 DEF MqSend, LifeTypes
<1>8. CASE Start
    <2>1. FifoTypes'
        BY <1>8, LifecycleAssumption DEF Start, LifeTypes, FifoTypes
    <2> QED
        BY <1>2, <1>4, <1>8, <2>1 DEF Start, prodVars, LifeTypes
<1>9. CASE Die
    <2>1. FifoTypes'
        BY <1>9, LifecycleAssumption DEF Die, LifeTypes, FifoTypes
    <2> QED
        BY <1>2, <1>4, <1>9, <2>1 DEF Die, prodVars, LifeTypes
<1>10. CASE PollCli
    <2>1. CASE fifo = <<>>
        BY <1>2, <1>4, <1>10, <2>1 DEF PollCli, prodVars, LifeTypes, FifoTypes
    <2>2. CASE fifo # <<>>
        <3>1. got' = Append(got, Head(fifo)) /\ fifo' = Tail(fifo)
            BY <1>10, <2>2 DEF PollCli
        <3>2. got' \in Seq(Nat) /\ fifo' \in Seq(Nat) /\ Len(fifo') <= FifoCap
            BY <2>2, <3>1, ReadQueue, LifecycleAssumption DEF LifeTypes, FifoTypes
        <3> QED
            BY <1>2, <1>4, <1>10, <3>2 DEF PollCli, prodVars, LifeTypes, FifoTypes
    <2> QED
        BY <2>1, <2>2
<1>11. CASE MqReceive
    <2>0. FifoTypes'
        BY <1>11 DEF MqReceive, LifeTypes, FifoTypes
    <2>1. CASE mq = <<>>
        BY <1>2, <1>4, <1>11, <2>0, <2>1 DEF MqReceive, prodVars, LifeTypes
    <2>2. CASE mq # <<>>
        <3>1. heard' = Append(heard, Head(mq)) /\ mq' = Tail(mq)
            BY <1>11, <2>2 DEF MqReceive
        <3>2. heard' \in Seq(Message) /\ mq' \in Seq(Message) /\ Len(mq') <= QUEUE_MAXMSG
            BY <2>2, <3>1, ReadQueue, LifecycleAssumption DEF LifeTypes, QueueTypes
        <3> QED
            BY <1>2, <1>11, <2>0, <3>2 DEF MqReceive, prodVars, LifeTypes, QueueTypes
    <2> QED
        BY <2>1, <2>2
<1> QED
    BY <1>5, <1>6, <1>7, <1>8, <1>9, <1>10, <1>11 DEF ServerStep

LEMMA TypesStep == LifeTypes /\ Descriptors /\ [Next]_vars => LifeTypes' /\ Descriptors'
BY CliTypes, OtherTypes DEF Next, CliStep

-----------------------------------------------------------------------------
(* Commands on their way.                                                  *)

Passed == got \o fifo

\* Commands have their numbers, in order, and the one being written is not among
\* them.
Numbered ==
    /\ \A i, j \in DOMAIN Passed : i < j => Passed[i] < Passed[j]
    /\ \A i \in DOMAIN Passed :
        Passed[i] \in 1 .. Len(given) /\ (cli = "write" => Passed[i] # Len(given))

\* None is missing, as long as nothing happened that loses some.
Whole ==
    ~gap /\ BadLines < MaxCliFd =>
      /\ Len(Passed) = IF cli = "write" THEN Len(given) - 1 ELSE Len(given)
      /\ \A i \in DOMAIN Passed : Passed[i] = i

LEMMA PassedType ==
    ASSUME LifeTypes
    PROVE  /\ Passed \in Seq(Nat) /\ Len(Passed) \in Nat /\ DOMAIN Passed = 1 .. Len(Passed)
           /\ Len(given) \in Nat /\ Len(typed) \in Nat /\ MaxCliFd \in Nat /\ leaked \in Nat
           /\ BadLines \in Int
    BY QueueElements, LifecycleAssumption
       DEF LifeTypes, OperatorTypes, FifoTypes, Passed, BadLines

\* What was read passed.
LEMMA GotPassed ==
    ASSUME got \in Seq(Nat), fifo \in Seq(Nat)
    PROVE  \A i \in DOMAIN got : i \in DOMAIN Passed /\ Passed[i] = got[i]
<1>1. /\ Len(got) \in Nat /\ Len(fifo) \in Nat
      /\ DOMAIN Passed = 1 .. Len(got) + Len(fifo) /\ DOMAIN got = 1 .. Len(got)
      /\ \A i \in 1 .. Len(got) : Passed[i] = got[i]
    BY QueueElements DEF Passed
<1> QED
    BY <1>1

\* Steps that keep what is on its way.
LEMMA PassedKept ==
    ASSUME Numbered, Whole, UNCHANGED <<Passed, given, typed>>, gap => gap',
           cli' = "write" <=> cli = "write"
    PROVE  Numbered' /\ Whole'
BY DEF Numbered, Whole, BadLines

\* The FIFO is emptied, or the command being written is lost, when a process ends
\* with nobody at the other end.
LEMMA PassedCut ==
    ASSUME LifeTypes, Numbered, got' = got, fifo' = fifo \/ fifo' = <<>>, UNCHANGED given,
           gap', cli' = "write" => cli = "write"
    PROVE  Numbered' /\ Whole'
<1>1. \/ Passed' = Passed
      \/ Passed' = got
    BY EmptySeq, ConcatEmptySeq DEF Passed, LifeTypes, FifoTypes
<1>2. DOMAIN got \subseteq DOMAIN Passed /\ \A i \in DOMAIN got : got[i] = Passed[i]
    BY QueueElements DEF Passed, LifeTypes, FifoTypes
<1>3. Numbered'
    BY <1>1, <1>2 DEF Numbered
<1> QED
    BY <1>3 DEF Whole

LEMMA PassedStep ==
    ASSUME LifeTypes, Descriptors, Numbered, Whole, [Next]_vars
    PROVE  Numbered' /\ Whole'
<1>0. /\ Passed \in Seq(Nat) /\ Len(Passed) \in Nat /\ DOMAIN Passed = 1 .. Len(Passed)
      /\ Len(given) \in Nat /\ Len(typed) \in Nat /\ MaxCliFd \in Nat /\ leaked \in Nat
      /\ BadLines \in Int
    BY PassedType
<1>1. ASSUME UNCHANGED <<got, fifo, given, typed, gap>>, cli' = "write" <=> cli = "write"
      PROVE  Numbered' /\ Whole'
    BY <1>1, PassedKept DEF Passed
<1>2. CASE UNCHANGED vars \/ CliStart \/ CliOpen \/ Start \/ MqReceive
           \/ \E p \in Producer : Join(p) \/ MqSend(p) \/ handle_SIGTERM(p)
    BY <1>1, <1>2 DEF vars, cliVars, CliStart, CliOpen, Start, MqReceive, Join, MqSend,
                      handle_SIGTERM
<1>3. CASE CliRead
    <2>1. PICK words \in Seq(STRING) :
              /\ cli = "read" /\ typed' = Append(typed, words) /\ stdin' \in Seq(STRING)
              /\ UNCHANGED <<server, lives, fifo, created, mq, got, heard, gap, prodVars, fd>>
              /\ \/ /\ ~Form(words)
                    /\ leaked' = (IF fd THEN leaked + 1 ELSE leaked) /\ cli' = "open"
                    /\ UNCHANGED given
                 \/ /\ Form(words) /\ given' = Append(given, parse_command(words))
                    /\ cli' = "write" /\ UNCHANGED leaked
        BY <1>3, CliReads
    <2>2. Len(typed') = Len(typed) + 1
        BY <2>1, AppendProperties DEF LifeTypes, OperatorTypes
    <2>3. UNCHANGED Passed
        BY <2>1 DEF Passed
    <2>4. CASE ~Form(words)
        <3>1. Numbered'
            BY <2>1, <2>3, <2>4 DEF Numbered
        <3>2. BadLines' < MaxCliFd => BadLines < MaxCliFd
            BY <1>0, <2>1, <2>2, <2>4 DEF BadLines
        <3>3. UNCHANGED <<gap, given, Passed>> /\ cli' # "write" /\ cli # "write"
            BY <2>1, <2>3, <2>4
        <3> QED
            BY <3>1, <3>2, <3>3 DEF Whole
    <2>5. CASE Form(words)
        <3> DEFINE cmd == parse_command(words)
        <3>1. cmd \in CommandType
            BY <2>1, <2>5, ParseForms
        <3>2. given' = Append(given, cmd)
            BY <2>1, <2>5
        <3> HIDE DEF cmd
        <3>3. Len(given') = Len(given) + 1
            BY <3>1, <3>2, AppendProperties DEF LifeTypes, OperatorTypes
        <3>4. cli = "read" /\ cli' = "write" /\ UNCHANGED gap
            BY <2>1, <2>5
        <3>5. Numbered'
            <4>1. \A i \in DOMAIN Passed : Passed[i] \in 1 .. Len(given') /\ Passed[i] # Len(given')
                BY <1>0, <3>3 DEF Numbered
            <4> QED
                BY <2>3, <4>1 DEF Numbered
        <3>6. BadLines' = BadLines
            BY <1>0, <2>2, <3>3 DEF BadLines
        <3>7. Len(given') - 1 = Len(given)
            BY <1>0, <3>3
        <3> QED
            BY <2>3, <3>4, <3>5, <3>6, <3>7 DEF Whole
    <2> QED
        BY <2>4, <2>5
<1>4. ASSUME CliEnds, UNCHANGED <<got, typed, given>>
      PROVE  Numbered' /\ Whole'
    <2>1. CASE gap'
        BY <1>4, <2>1, PassedCut DEF CliEnds
    <2>2. CASE ~gap'
        BY <1>1, <1>4, <2>2 DEF CliEnds, LifeTypes, FifoTypes
    <2> QED
        BY <2>1, <2>2
<1>5. CASE CliWrite
    <2>0. cli = "write" /\ UNCHANGED <<got, typed, given>>
        BY <1>5 DEF CliWrite
    <2>1. CASE fd /\ server # "down"
        <3>1. fifo' = Append(fifo, Len(given)) /\ cli' = "open" /\ UNCHANGED gap
            BY <1>5, <2>1 DEF CliWrite
        <3>2. /\ Len(Passed) = Len(got) + Len(fifo)
              /\ DOMAIN Passed' = 1 .. Len(Passed) + 1 /\ Len(Passed') = Len(Passed) + 1
              /\ \A i \in 1 .. Len(Passed) : Passed'[i] = Passed[i]
              /\ Passed'[Len(Passed) + 1] = Len(given)
            <4>1. got \in Seq(Nat) /\ fifo \in Seq(Nat) /\ got' = got
                BY <2>0 DEF LifeTypes, FifoTypes
            <4>2. Passed' = got \o Append(fifo, Len(given))
                BY <3>1, <4>1 DEF Passed
            <4>3. /\ got \o Append(fifo, Len(given)) \in Seq(Nat)
                  /\ DOMAIN (got \o fifo) = 1 .. Len(got) + Len(fifo)
                  /\ DOMAIN (got \o Append(fifo, Len(given))) = 1 .. Len(got) + Len(fifo) + 1
                  /\ \A i \in 1 .. Len(got) + Len(fifo) :
                        (got \o Append(fifo, Len(given)))[i] = (got \o fifo)[i]
                  /\ (got \o Append(fifo, Len(given)))[Len(got) + Len(fifo) + 1] = Len(given)
                BY ONLY <1>0, <4>1, WriteQueue
            <4>4. Len(got) \in Nat /\ Len(fifo) \in Nat /\ Len(Passed) = Len(got) + Len(fifo)
                BY <4>1, ConcatProperties DEF Passed
            <4>5. Len(Passed') = Len(Passed) + 1
                BY <4>2, <4>3, <4>4
            <4> QED
                BY <4>2, <4>3, <4>4, <4>5 DEF Passed
        <3>3. \A i \in 1 .. Len(Passed) : Passed[i] \in Nat /\ Passed[i] < Len(given)
                                          /\ Passed[i] >= 1
            BY <1>0, <2>0 DEF Numbered
        <3>4. Len(given) > 0
            BY <2>0 DEF Descriptors
        <3>5. Numbered'
            <4>1. ASSUME NEW i \in DOMAIN Passed', NEW j \in DOMAIN Passed', i < j
                  PROVE  Passed'[i] < Passed'[j]
                <5>1. i \in 1 .. Len(Passed)
                    BY <1>0, <3>2, <4>1
                <5>2. CASE j \in 1 .. Len(Passed)
                    BY <1>0, <3>2, <4>1, <5>1, <5>2 DEF Numbered
                <5>3. CASE j = Len(Passed) + 1
                    BY <3>2, <3>3, <5>1, <5>3
                <5> QED
                    BY <1>0, <3>2, <4>1, <5>2, <5>3
            <4>2. ASSUME NEW i \in DOMAIN Passed' PROVE Passed'[i] \in 1 .. Len(given)
                <5>1. CASE i \in 1 .. Len(Passed)
                    BY <1>0, <3>2, <3>3, <5>1
                <5>2. CASE i = Len(Passed) + 1
                    BY <1>0, <3>2, <3>4, <5>2
                <5> QED
                    BY <1>0, <3>2, <4>2, <5>1, <5>2
            <4> QED
                BY <2>0, <3>1, <4>1, <4>2 DEF Numbered
        <3>6. Whole'
            <4> SUFFICES ASSUME ~gap, BadLines < MaxCliFd
                         PROVE  /\ Len(Passed') = Len(given)
                                /\ \A i \in DOMAIN Passed' : Passed'[i] = i
                BY <2>0, <3>1 DEF Whole, BadLines
            <4>1. Len(Passed) = Len(given) - 1 /\ \A i \in 1 .. Len(Passed) : Passed[i] = i
                BY <1>0, <2>0 DEF Whole
            <4>2. Len(Passed') = Len(given)
                BY <1>0, <3>2, <4>1
            <4>3. ASSUME NEW i \in DOMAIN Passed' PROVE Passed'[i] = i
                <5>1. CASE i \in 1 .. Len(Passed)
                    BY <3>2, <4>1, <5>1
                <5>2. CASE i = Len(Passed) + 1
                    BY <1>0, <3>2, <4>1, <5>2
                <5>3. i \in 1 .. Len(Passed) \/ i = Len(Passed) + 1
                    BY ONLY <1>0, <3>2, <4>3
                <5> QED
                    BY <5>1, <5>2, <5>3
            <4> QED
                BY <4>2, <4>3
        <3> QED
            BY <3>5, <3>6
    <2>2. CASE CliEnds
        BY <1>4, <2>0, <2>2
    <2>3. CASE ~fd
        <3>1. cli' = "open" /\ UNCHANGED <<fifo, gap, Passed>>
            BY <1>5, <2>0, <2>3 DEF CliWrite, Passed
        <3>2. Numbered'
            BY <2>0, <3>1 DEF Numbered
        <3>3. ~(BadLines < MaxCliFd)
            BY <1>0, <2>0, <2>3 DEF Descriptors, LifeTypes, OperatorTypes
        <3> QED
            BY <2>0, <3>2, <3>3 DEF Whole, BadLines
    <2> QED
        BY <1>5, <2>1, <2>2, <2>3 DEF CliWrite
<1>6. CASE CliKill
    BY <1>4, <1>6 DEF CliKill
<1>7. CASE Die
    <2>1. UNCHANGED <<got, given, typed, cli>> /\ fifo' \in {fifo, <<>>}
        BY <1>7 DEF Die, cliVars
    <2>2. CASE gap'
        BY <2>1, <2>2, PassedCut
    <2>3. CASE ~gap'
        BY <1>1, <1>7, <2>1, <2>3 DEF Die, LifeTypes, FifoTypes
    <2> QED
        BY <2>2, <2>3
<1>8. CASE PollCli
    <2>1. UNCHANGED <<given, typed, cli, gap>>
        BY <1>8 DEF PollCli, cliVars
    <2>2. CASE fifo = <<>>
        BY <1>1, <1>8, <2>1, <2>2 DEF PollCli
    <2>3. CASE fifo # <<>>
        <3>1. got' = Append(got, Head(fifo)) /\ fifo' = Tail(fifo)
            BY <1>8, <2>3 DEF PollCli
        <3>2. Append(got, Head(fifo)) \o Tail(fifo) = got \o fifo
            BY <2>3, ReadQueue DEF LifeTypes, FifoTypes
        <3>3. UNCHANGED Passed
            BY ONLY <3>1, <3>2 DEF Passed
        <3> QED
            BY <2>1, <3>3, PassedKept
    <2> QED
        BY <2>2, <2>3
<1> QED
    BY <1>2, <1>3, <1>5, <1>6, <1>7, <1>8 DEF Next, CliStep, ServerStep

-----------------------------------------------------------------------------
(* Messages.                                                               *)

All == heard \o mq

LEMMA AllType ==
    ASSUME LifeTypes
    PROVE  /\ All \in Seq(Message) /\ Len(All) \in Nat /\ DOMAIN All = 1 .. Len(All)
           /\ \A i \in 1 .. Len(All) : All[i] \in Message
<1>1. heard \in Seq(Message) /\ mq \in Seq(Message)
    BY DEF LifeTypes, QueueTypes
<1>2. All \in Seq(Message)
    BY <1>1, QueueElements DEF All
<1> QED
    BY <1>2, LenProperties, ElementOfSeq

LEMMA MessagesStep ==
    ASSUME LifeTypes, MessagesSurvive, [Next]_vars
    PROVE  MessagesSurvive'
<1>0. /\ All \in Seq(Message) /\ Len(All) \in Nat /\ DOMAIN All = 1 .. Len(All)
      /\ \A i \in 1 .. Len(All) : All[i] \in Message
    BY AllType
<1>1. ASSUME UNCHANGED <<All, count>> PROVE MessagesSurvive'
    BY <1>1 DEF MessagesSurvive, All
<1>2. CASE UNCHANGED vars \/ CliStart \/ CliOpen \/ CliRead \/ CliWrite \/ CliKill \/ Start
           \/ Die \/ PollCli \/ \E p \in Producer : Join(p) \/ handle_SIGTERM(p)
    BY <1>1, <1>2 DEF vars, prodVars, CliStart, CliOpen, CliRead, CliWrite, CliKill, Start, Die,
                      PollCli, Join, handle_SIGTERM, All
<1>3. ASSUME NEW p \in Producer, MqSend(p) PROVE MessagesSurvive'
    <2> DEFINE m == <<p, count[p] + 1>>
    <2>1. /\ count[p] \in Nat /\ heard' = heard /\ mq' = Append(mq, m)
          /\ count' = [count EXCEPT ![p] = @ + 1] /\ m \in Message
        BY <1>3, LifecycleAssumption DEF MqSend, LifeTypes, QueueTypes, Message
    <2>2. m[1] = p /\ m[2] = count[p] + 1
        OBVIOUS
    <2>3. /\ DOMAIN All' = 1 .. Len(All) + 1
          /\ \A i \in 1 .. Len(All) : All'[i] = All[i]
          /\ All'[Len(All) + 1] = m
        <3> HIDE DEF m
        <3>1. heard \in Seq(Message) /\ mq \in Seq(Message) /\ All' = heard \o Append(mq, m)
            BY <2>1 DEF All, LifeTypes, QueueTypes
        <3>2. Len(All) = Len(heard) + Len(mq)
            BY <3>1, ConcatProperties DEF All
        <3>3. /\ DOMAIN (heard \o Append(mq, m)) = 1 .. Len(heard) + Len(mq) + 1
              /\ \A i \in 1 .. Len(heard) + Len(mq) :
                    (heard \o Append(mq, m))[i] = (heard \o mq)[i]
              /\ (heard \o Append(mq, m))[Len(heard) + Len(mq) + 1] = m
            BY ONLY <2>1, <3>1, WriteQueue
        <3> QED
            BY <3>1, <3>2, <3>3 DEF All
    <2>4. \A q \in Producer : count[q] \in Nat
        BY LifecycleAssumption DEF LifeTypes, QueueTypes
    <2>5. \A q \in Producer : count'[q] = IF q = p THEN count[p] + 1 ELSE count[q]
        BY <2>1 DEF LifeTypes, QueueTypes
    <2> HIDE DEF m
    <2>6. \A i \in 1 .. Len(All) : /\ All[i][1] \in Producer /\ All[i][2] \in Nat
                                   /\ All[i][2] <= count[All[i][1]]
        BY <1>0 DEF MessagesSurvive, All, Message
    <2>7. ASSUME NEW i \in DOMAIN All', NEW j \in DOMAIN All', i < j, All'[i][1] = All'[j][1]
          PROVE  All'[i][2] < All'[j][2]
        <3>1. i \in 1 .. Len(All)
            BY <1>0, <2>3, <2>7
        <3>2. CASE j \in 1 .. Len(All)
            BY <1>0, <2>3, <2>7, <3>1, <3>2 DEF MessagesSurvive, All
        <3>3. CASE j = Len(All) + 1
            BY <2>1, <2>2, <2>3, <2>6, <2>7, <3>1, <3>3
        <3> QED
            BY <1>0, <2>3, <2>7, <3>2, <3>3
    <2>8. ASSUME NEW q \in Producer, NEW n \in 1 .. count'[q]
          PROVE  \E i \in DOMAIN All' : All'[i] = <<q, n>>
        <3>1. CASE n \in 1 .. count[q]
            <4>1. \E i \in DOMAIN All : All[i] = <<q, n>>
                BY <3>1 DEF MessagesSurvive, All, ToSet
            <4> QED
                BY <1>0, <2>3, <4>1
        <3>2. CASE n \notin 1 .. count[q]
            <4>1. q = p /\ n = count[p] + 1
                BY <2>4, <2>5, <2>8, <3>2
            <4>2. Len(All) + 1 \in DOMAIN All'
                BY <1>0, <2>3
            <4> QED
                BY <2>3, <4>1, <4>2 DEF m
        <3> QED
            BY <3>1, <3>2
    <2>9. ASSUME NEW i \in DOMAIN All' PROVE All'[i][2] <= count'[All'[i][1]]
        <3>1. CASE i \in 1 .. Len(All)
            <4>1. All'[i] = All[i] /\ count[All[i][1]] <= count'[All[i][1]]
                BY <2>1, <2>3, <2>4, <2>5, <2>6, <3>1
            <4> QED
                BY <2>4, <2>5, <2>6, <3>1, <4>1
        <3>2. CASE i = Len(All) + 1
            BY <2>1, <2>2, <2>3, <2>5, <3>2
        <3> QED
            BY <1>0, <2>3, <2>9, <3>1, <3>2
    <2> QED
        BY <2>7, <2>8, <2>9 DEF MessagesSurvive, All, ToSet
<1>4. CASE MqReceive
    <2>1. CASE mq = <<>>
        BY <1>1, <1>4, <2>1 DEF MqReceive, prodVars, All
    <2>2. CASE mq # <<>>
        <3>1. heard' = Append(heard, Head(mq)) /\ mq' = Tail(mq) /\ UNCHANGED count
            BY <1>4, <2>2 DEF MqReceive, prodVars
        <3>2. Append(heard, Head(mq)) \o Tail(mq) = heard \o mq
            BY <2>2, ReadQueue DEF LifeTypes, QueueTypes
        <3>3. UNCHANGED All
            BY ONLY <3>1, <3>2 DEF All
        <3> QED
            BY <1>1, <3>1, <3>3
    <2> QED
        BY <2>1, <2>2
<1> QED
    BY <1>2, <1>3, <1>4 DEF Next, CliStep, ServerStep

-----------------------------------------------------------------------------
(* Lines.                                                                  *)

\* line tells where each command was typed.
Typed(line) ==
    /\ \A i, j \in DOMAIN given : i < j => line[i] < line[j]
    /\ \A k \in DOMAIN typed :
         Form(typed[k]) <=> \E i \in DOMAIN given : line[i] = k
    /\ \A i \in DOMAIN given : Means(given[i], typed[line[i]])

LinesKnown == \E line \in [DOMAIN given -> DOMAIN typed] : Typed(line)

LEMMA LinesStep ==
    ASSUME LifeTypes, LinesKnown, [Next]_vars
    PROVE  LinesKnown'
<1>1. ASSUME UNCHANGED <<given, typed>> PROVE LinesKnown'
    BY <1>1 DEF LinesKnown, Typed
<1>2. CASE ~CliRead
    BY <1>1, <1>2 DEF Next, vars, cliVars, CliStart, CliOpen, CliWrite, CliKill, Start, Die,
                      PollCli, MqReceive, Join, MqSend, handle_SIGTERM, CliStep, ServerStep
<1>3. CASE CliRead
    <2>1. PICK words \in Seq(STRING) :
              /\ cli = "read" /\ typed' = Append(typed, words) /\ stdin' \in Seq(STRING)
              /\ UNCHANGED <<server, lives, fifo, created, mq, got, heard, gap, prodVars, fd>>
              /\ \/ /\ ~Form(words)
                    /\ leaked' = (IF fd THEN leaked + 1 ELSE leaked) /\ cli' = "open"
                    /\ UNCHANGED given
                 \/ /\ Form(words) /\ given' = Append(given, parse_command(words))
                    /\ cli' = "write" /\ UNCHANGED leaked
        BY <1>3, CliReads
    <2>2. PICK line \in [DOMAIN given -> DOMAIN typed] : Typed(line)
        BY DEF LinesKnown
    <2> DEFINE n == Len(typed)
               g == Len(given)
    <2>3. /\ n \in Nat /\ g \in Nat /\ DOMAIN typed = 1 .. n /\ DOMAIN given = 1 .. g
          /\ typed' \in Seq(Seq(STRING))
          /\ Len(typed') = n + 1 /\ DOMAIN typed' = 1 .. n + 1
          /\ \A k \in 1 .. n : typed'[k] = typed[k]
          /\ typed'[n + 1] = words
        BY <2>1, AppendProperties, LenProperties DEF LifeTypes, OperatorTypes
    <2> HIDE DEF n, g
    <2>4. \A i \in 1 .. g : line[i] \in 1 .. n
        BY <2>3
    <2>5. CASE ~Form(words)
        <3>1. UNCHANGED given
            BY <2>1, <2>5
        <3>2. line \in [DOMAIN given' -> DOMAIN typed']
            BY <2>3, <2>4, <3>1
        <3>3. ASSUME NEW k \in DOMAIN typed'
              PROVE  Form(typed'[k]) <=> \E i \in DOMAIN given : line[i] = k
            <4>1. CASE k \in 1 .. n
                BY <2>2, <2>3, <4>1 DEF Typed
            <4>2. CASE k = n + 1
                BY <2>3, <2>4, <2>5, <4>2
            <4> QED
                BY <2>3, <3>3, <4>1, <4>2
        <3>4. \A i \in DOMAIN given : Means(given[i], typed'[line[i]])
            BY <2>2, <2>3, <2>4 DEF Typed
        <3>5. \A i, j \in DOMAIN given : i < j => line[i] < line[j]
            BY <2>2 DEF Typed
        <3> QED
            BY <3>1, <3>2, <3>3, <3>4, <3>5 DEF LinesKnown, Typed
    <2>6. CASE Form(words)
        <3> DEFINE cmd == parse_command(words)
        <3>1. cmd \in CommandType /\ Means(cmd, words)
            BY <2>1, <2>6, ParseForms
        <3>2. given' = Append(given, cmd)
            BY <2>1, <2>6
        <3> HIDE DEF cmd
        <3>3. /\ DOMAIN given' = 1 .. g + 1
              /\ \A i \in 1 .. g : given'[i] = given[i]
              /\ given'[g + 1] = cmd
            BY <3>1, <3>2, <2>3, AppendProperties, LenProperties DEF LifeTypes, OperatorTypes, g
        <3> DEFINE f == [i \in 1 .. g + 1 |-> IF i = g + 1 THEN n + 1 ELSE line[i]]
        <3>4. /\ \A i \in 1 .. g : f[i] = line[i] /\ f[i] \in 1 .. n
              /\ f[g + 1] = n + 1
            BY <2>3, <2>4
        <3>5. f \in [DOMAIN given' -> DOMAIN typed']
            BY <2>3, <2>4, <3>3
        <3> HIDE DEF f
        <3>6. ASSUME NEW i \in DOMAIN given', NEW j \in DOMAIN given', i < j
              PROVE  f[i] < f[j]
            <4>1. i \in 1 .. g
                BY <2>3, <3>3, <3>6
            <4>2. CASE j \in 1 .. g
                BY <2>2, <2>3, <3>4, <3>6, <4>1, <4>2 DEF Typed
            <4>3. CASE j = g + 1
                BY <2>3, <3>4, <4>1, <4>3
            <4> QED
                BY <2>3, <3>3, <3>6, <4>2, <4>3
        <3>7. ASSUME NEW k \in DOMAIN typed'
              PROVE  Form(typed'[k]) <=> \E i \in DOMAIN given' : f[i] = k
            <4>1. CASE k \in 1 .. n
                <5>1. Form(typed'[k]) <=> \E i \in 1 .. g : line[i] = k
                    BY <2>2, <2>3, <4>1 DEF Typed
                <5>2. (\E i \in 1 .. g + 1 : f[i] = k) <=> \E i \in 1 .. g : line[i] = k
                    <6>1. f[g + 1] # k
                        BY <2>3, <3>4, <4>1
                    <6>2. \A i \in 1 .. g + 1 : i \in 1 .. g \/ i = g + 1
                        BY <2>3
                    <6>3. \A i \in 1 .. g : i \in 1 .. g + 1
                        BY <2>3
                    <6> QED
                        BY <3>4, <6>1, <6>2, <6>3
                <5> QED
                    BY <3>3, <5>1, <5>2
            <4>2. CASE k = n + 1
                BY <2>3, <2>6, <3>3, <3>4, <4>2
            <4> QED
                BY <2>3, <3>7, <4>1, <4>2
        <3>8. ASSUME NEW i \in DOMAIN given'
              PROVE  Means(given'[i], typed'[f[i]])
            <4>1. CASE i \in 1 .. g
                BY <2>2, <2>3, <3>3, <3>4, <4>1 DEF Typed
            <4>2. CASE i = g + 1
                BY <2>3, <3>1, <3>3, <3>4, <4>2
            <4> QED
                BY <2>3, <3>3, <3>8, <4>1, <4>2
        <3> QED
            BY <3>5, <3>6, <3>7, <3>8 DEF LinesKnown, Typed
    <2> QED
        BY <2>5, <2>6
<1> QED
    BY <1>2, <1>3

-----------------------------------------------------------------------------
(* The theorems.                                                           *)

LifeInv == /\ LifeTypes /\ Descriptors /\ Numbered /\ Whole
           /\ MessagesSurvive /\ LinesKnown

LEMMA LifeInit == Init => LifeInv
<1> SUFFICES ASSUME Init PROVE LifeInv
    OBVIOUS
<1>1. LifeTypes /\ Descriptors
    BY TypesInit
<1>2. given = <<>> /\ typed = <<>> /\ got = <<>> /\ fifo = <<>> /\ heard = <<>> /\ mq = <<>>
      /\ count = [p \in Producer |-> 0] /\ cli = "dead"
    BY DEF Init
<1>3. Len(Passed) = 0 /\ Len(All) = 0 /\ Len(given) = 0
    BY <1>2 DEF Passed, All
<1>4. DOMAIN Passed = {} /\ DOMAIN All = {}
    BY <1>1, <1>3, PassedType, AllType
<1>5. Numbered /\ Whole
    BY <1>2, <1>3, <1>4 DEF Numbered, Whole
<1>6. MessagesSurvive
    BY <1>2, <1>4 DEF MessagesSurvive, All
<1>7. LinesKnown
    <2>1. DOMAIN given = {} /\ DOMAIN typed = {}
        BY <1>2
    <2>2. [i \in {} |-> 0] \in [DOMAIN given -> DOMAIN typed]
        BY <2>1
    <2> QED
        BY <2>1, <2>2 DEF LinesKnown, Typed
<1> QED
    BY <1>1, <1>5, <1>6, <1>7 DEF LifeInv

LEMMA LifeInvHolds == Spec => []LifeInv
<1>1. LifeInv /\ [Next]_vars => LifeInv'
    BY TypesStep, PassedStep, MessagesStep, LinesStep DEF LifeInv
<1> QED
    BY <1>1, LifeInit, PTL DEF Spec

\* The commands accepted are the lines of the three forms that README.md gives, in
\* their order, each with the verb, the token and the producer that were typed in it,
\* and no other line is accepted (cli.c, parse_command), for any lines, those longer
\* than the buffer, which are read in parts, included.
THEOREM CommandsAreTyped == Spec => []CommandsAsTyped
<1>1. LifeInv => CommandsAsTyped
    <2> SUFFICES ASSUME LifeInv PROVE CommandsAsTyped
        OBVIOUS
    <2>1. LifeTypes /\ Numbered /\ leaked <= BadLines
        BY DEF LifeInv, Descriptors
    <2>2. /\ got \in Seq(Nat) /\ fifo \in Seq(Nat) /\ heard \in Seq(Message)
          /\ mq \in Seq(Message)
        BY <2>1 DEF LifeTypes, FifoTypes, QueueTypes
    <2>3. DOMAIN given = 1 .. Len(given)
        BY <2>1 DEF LifeTypes, OperatorTypes
    <2>4. ToSet(got) \subseteq DOMAIN given /\ ToSet(fifo) \subseteq DOMAIN given
        <3>1. \A i \in DOMAIN got : got[i] \in DOMAIN given
            BY <2>1, <2>2, <2>3, GotPassed DEF Numbered
        <3>2. \A i \in DOMAIN fifo : fifo[i] \in DOMAIN given
            <4> TAKE i \in DOMAIN fifo
            <4>1. /\ Len(got) + i \in DOMAIN Passed
                  /\ Passed[Len(got) + i] = fifo[i]
                BY <2>2, QueueElements DEF Passed
            <4> QED
                BY <2>1, <2>3, <4>1 DEF Numbered
        <3> QED
            BY <3>1, <3>2 DEF ToSet
    <2>5. ToSet(heard) \subseteq Message /\ ToSet(mq) \subseteq Message
        BY <2>2 DEF ToSet
    <2>6. Len(given) <= Len(typed)
        BY <2>1, PassedType DEF BadLines
    <2>7. TypeOK
        BY <2>1, <2>4, <2>5, <2>6
           DEF LifeTypes, OperatorTypes, FifoTypes, QueueTypes, TypeOK, Message
    <2> QED
        BY <2>7 DEF LifeInv, LinesKnown, Typed, CommandsAsTyped
<1> QED
    BY <1>1, LifeInvHolds, PTL

\* Whatever is killed and restarted, a command is read at most once and after those
\* given before it; and all are read or on their way while each end of the FIFO
\* outlived the other and fewer bad lines were typed than the CLI has descriptors
\* (cli.c: it opens the FIFO before it waits for a line, and loses a descriptor with
\* each bad one).
THEOREM CommandsReach == Spec => []CommandsReachOnce
<1>1. LifeInv => CommandsReachOnce
    <2> SUFFICES ASSUME LifeInv PROVE CommandsReachOnce
        OBVIOUS
    <2>1. LifeTypes /\ Numbered /\ Whole
        BY DEF LifeInv
    <2>2. got \in Seq(Nat) /\ fifo \in Seq(Nat) /\ given \in Seq(CommandType)
        BY <2>1 DEF LifeTypes, FifoTypes, OperatorTypes
    <2>3. \A i, j \in DOMAIN got : i < j => got[i] < got[j]
        <3>1. \A i \in DOMAIN got : i \in DOMAIN Passed /\ Passed[i] = got[i]
            BY <2>2, GotPassed
        <3> QED
            BY <2>1, <3>1 DEF Numbered
    <2>4. ASSUME ~gap, BadLines < MaxCliFd
          PROVE  got \o fifo \o Pending = [i \in DOMAIN given |-> i]
        <3> DEFINE n == Len(given)
                   id == [i \in 1 .. n |-> i]
        <3>1. n \in Nat /\ DOMAIN given = 1 .. n /\ Passed \in Seq(Nat) /\ Len(Passed) \in Nat
              /\ DOMAIN Passed = 1 .. Len(Passed)
            BY <2>1, <2>2, PassedType
        <3>2. id \in Seq(Nat) /\ Len(id) = n /\ \A i \in 1 .. n : id[i] = i
            BY <3>1
        <3> HIDE DEF id
        <3>3. CASE cli = "write"
            <4>1. Len(Passed) = n - 1 /\ \A i \in 1 .. n - 1 : Passed[i] = i
                BY <2>1, <2>4, <3>1, <3>3 DEF Whole
            <4>2. Append(Passed, n) \in Seq(Nat) /\ Len(Append(Passed, n)) = n
                  /\ \A i \in 1 .. n : Append(Passed, n)[i] = i
                <5>1. n >= 1
                    BY <3>1, <4>1
                <5>2. /\ Append(Passed, n) \in Seq(Nat)
                      /\ Len(Append(Passed, n)) = Len(Passed) + 1
                      /\ Append(Passed, n)[Len(Passed) + 1] = n
                      /\ \A i \in 1 .. Len(Passed) : Append(Passed, n)[i] = Passed[i]
                    BY <3>1, AppendProperties
                <5>3. Len(Passed) + 1 = n
                    BY <3>1, <4>1
                <5>4. n \in Nat
                    BY <3>1
                <5> HIDE DEF n
                <5>5. \A i \in 1 .. n : i \in 1 .. n - 1 \/ i = n
                    BY ONLY <5>4
                <5> QED
                    BY <4>1, <5>2, <5>3, <5>5
            <4>3. Append(Passed, n) = id
                BY <3>2, <4>2, SeqEqual
            <4>4. Append(Passed, n) = Passed \o <<n>>
                BY <3>1, AppendIsConcat
            <4> QED
                BY <3>1, <3>3, <4>3, <4>4 DEF Passed, Pending, id
        <3>4. CASE cli # "write"
            <4>1. Len(Passed) = n /\ \A i \in 1 .. n : Passed[i] = i
                BY <2>1, <2>4, <3>1, <3>4 DEF Whole
            <4>2. Passed = id
                BY <3>1, <3>2, <4>1, SeqEqual
            <4>3. Passed \o <<>> = Passed
                BY <3>1, ConcatEmptySeq
            <4> QED
                BY <3>1, <3>4, <4>2, <4>3 DEF Passed, Pending, id
        <3> QED
            BY <3>3, <3>4
    <2> QED
        BY <2>3, <2>4 DEF CommandsReachOnce
<1> QED
    BY <1>1, LifeInvHolds, PTL

\* The queue outlives the server (srv.c, mq_open with O_CREAT and no mq_unlink): each
\* message a producer has sent has been received once, or waits, in the order in which
\* it was sent, through any number of restarts.
THEOREM MessagesKept == Spec => []MessagesSurvive
BY LifeInvHolds, PTL DEF LifeInv
=============================================================================
