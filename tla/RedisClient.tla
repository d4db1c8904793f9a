----------------------------- MODULE RedisClient -----------------------------
(***************************************************************************)
(* The command line client redis_ae/simple-redis-client: one get or set in *)
(* the line protocol of early redis versions, its sds strings, and the     *)
(* blocking anetWrite and anetRead with a server that may end the          *)
(* connection anywhere.                                                    *)
(***************************************************************************)
EXTENDS Integers, Sequences, SequencesExt, FiniteSetsExt

CONSTANTS
    CliArgs,        \* the argument lists: sequences of words, a word is a sequence of bytes
    CliReplies      \* what the server may answer: sequences of bytes

VARIABLES
    cliAt,      \* "start", "write", "line", "body", "crlf"; "exit", "killed" (by a signal)
    argv,
    cmd,        \* the sds string cliSendCommand builds
    totlen,    \* bytes of cmd that write() has taken, in anetWrite
    srv,        \* "open", "closed" (FIN), "reset", "broken" (reset after FIN), "dead" (error reported)
    reply,      \* all the server will send
    inbox,    \* bytes of it in the client's socket or read from it
    consumed,   \* bytes of it that read() has returned
    line,       \* the sds string of cliReadLine
    bulk,       \* the bytes in the malloc'ed reply buffer
    bulklen,
    crlf,       \* bytes read into crlf[2]
    shown,      \* what was printed, NOTHING if nothing
    status,     \* exit status
    connected   \* the descriptor is open

cliVars == <<cliAt, argv, cmd, totlen, srv, reply, inbox, consumed, line, bulk, bulklen,
             crlf, shown, status, connected>>

NOTHING == <<"nothing">>
JUNK == "junk"              \* an uninitialised byte
CRLF == <<"\r", "\n">>
-------------------------------------------------------------------------------
\* sds.c: a string with its length and the bytes that are free behind it; "room" is what
\* was allocated, without the header and the final 0.
sdsnew(s) == [text |-> s, free |-> 0, room |-> Len(s)]
sdsempty == sdsnew(<<>>)
sdslen(s) == Len(s.text)

sdsMakeRoomFor(s, addlen) ==
    LET newlen == (sdslen(s) + addlen) * 2
    IN  IF s.free >= addlen THEN s
        ELSE [s EXCEPT !.free = newlen - sdslen(s), !.room = newlen]

sdscat(s, t) ==
    LET r == sdsMakeRoomFor(s, Len(t))
    IN  [r EXCEPT !.text = @ \o t, !.free = @ - Len(t)]

sdstrim(s, cset) ==
    LET kept == {i \in 1..sdslen(s) : s.text[i] \notin cset}
        text == IF kept = {} THEN <<>> ELSE SubSeq(s.text, Min(kept), Max(kept))
    IN  [s EXCEPT !.text = text, !.free = @ + (sdslen(s) - Len(text))]

Digits == <<"0", "1", "2", "3", "4", "5", "6", "7", "8", "9">>
ValueOf(c) == SelectInSeq(Digits, LAMBDA d : d = c) - 1

\* "%d" for numbers of up to two digits.
Decimal(n) == IF n < 10 THEN <<Digits[n + 1]>> ELSE <<Digits[(n \div 10) + 1], Digits[(n % 10) + 1]>>

\* atoi(): a sign and the digits in front.
atoi(s) ==
    LET negative == s # <<>> /\ s[1] = "-"
        digits == IF negative THEN Tail(s) ELSE s
        stops == {i \in 1..Len(digits) : digits[i] \notin ToSet(Digits)}
        number == IF stops = {} THEN digits ELSE SubSeq(digits, 1, Min(stops) - 1)
        value == FoldLeft(LAMBDA n, c : 10 * n + ValueOf(c), 0, number)
    IN  IF negative THEN 0 - value ELSE value
-------------------------------------------------------------------------------
Get == [name |-> <<"g", "e", "t">>, arity |-> 2, bulk |-> FALSE]
Set == [name |-> <<"s", "e", "t">>, arity |-> 3, bulk |-> TRUE]
CommandTable == <<Get, Set>>

\* The first command that begins with what was typed.
Matches(name) == {i \in 1..Len(CommandTable) : IsPrefix(name, CommandTable[i].name)}
lookupCommand(name) == CommandTable[Min(Matches(name))]
rc == lookupCommand(argv[1])

\* The words with blanks between them, but the length for the last word of a bulk command,
\* which follows on a line of its own.
BuildCommand ==
    LET word(j) == IF j = Len(argv) /\ rc.bulk THEN Decimal(Len(argv[j])) ELSE argv[j]
        words == FoldLeft(LAMBDA s, j : sdscat(IF j = 1 THEN s ELSE sdscat(s, <<" ">>), word(j)),
                          sdsempty, [j \in 1..Len(argv) |-> j])
        first == sdscat(words, CRLF)
    IN  IF rc.bulk THEN sdscat(sdscat(first, Last(argv)), CRLF) ELSE first

CliExit(ret) == cliAt' = "exit" /\ status' = ret /\ connected' = FALSE

\* main and cliSendCommand up to the connection: usage, unknown command, wrong number of
\* arguments, or socket() or connect() fails.
CliRefused ==
    /\ cliAt = "start"
    /\ CliExit(1)
    /\ UNCHANGED <<argv, cmd, totlen, srv, reply, inbox, consumed, line, bulk, bulklen, crlf, shown>>

clientConnect ==
    /\ cliAt = "start"
    /\ argv # <<>> /\ Matches(argv[1]) # {} /\ rc.arity = Len(argv)
    /\ connected' = TRUE
    /\ cmd' = BuildCommand
    /\ cliAt' = "write"
    /\ UNCHANGED <<argv, totlen, srv, reply, inbox, consumed, line, bulk, bulklen, crlf, shown, status>>

\* A write() of anetWrite; its result is not looked at, the reply is read in any case.
anetWrite ==
    /\ cliAt = "write"
    /\ \/ /\ totlen < sdslen(cmd) /\ srv \in {"open", "closed"}
          /\ \E n \in 1..(sdslen(cmd) - totlen) : totlen' = totlen + n
          /\ UNCHANGED <<cliAt, srv>>
       \/ /\ totlen < sdslen(cmd) /\ srv = "reset"
          /\ srv' = "dead" /\ cliAt' = "line" /\ UNCHANGED totlen
       \/ /\ totlen < sdslen(cmd) /\ srv \in {"broken", "dead"}
          /\ cliAt' = "killed" /\ UNCHANGED <<totlen, srv>>        \* SIGPIPE
       \/ /\ totlen = sdslen(cmd)
          /\ cliAt' = "line" /\ UNCHANGED <<totlen, srv>>
    /\ UNCHANGED <<argv, cmd, reply, inbox, consumed, line, bulk, bulklen, crlf, shown, status, connected>>

\* What read() finds: data first, then an error, which is reported once, or the end.
Data == consumed < inbox
AtError == ~Data /\ srv \in {"reset", "broken"}
AtEnd == ~Data /\ srv \in {"closed", "dead"}

\* What is done with a line: both cliReadInlineReply and the head of cliReadBulkReply.
LineRead(s) ==
    IF rc.bulk
    THEN CliExit(0) /\ shown' = s.text /\ UNCHANGED bulklen
    ELSE IF s.text = <<"n", "i", "l">>
    THEN CliExit(0) /\ shown' = <<"(nil)">> /\ UNCHANGED bulklen
    ELSE /\ bulklen' = atoi(s.text)
         /\ cliAt' = "body"
         /\ UNCHANGED <<shown, status, connected>>

\* One byte of cliReadLine.
cliReadLine ==
    /\ cliAt = "line"
    /\ \/ /\ Data
          /\ consumed' = consumed + 1
          /\ LET c == reply[consumed + 1]
             IN  IF c = "\n"
                 THEN line' = sdstrim(line, {"\r", "\n"}) /\ LineRead(line')
                 ELSE line' = sdscat(line, <<c>>) /\ UNCHANGED <<cliAt, shown, status, connected, bulklen>>
          /\ UNCHANGED srv
       \/ /\ AtEnd
          /\ line' = sdstrim(line, {"\r", "\n"}) /\ LineRead(line')
          /\ UNCHANGED <<consumed, srv>>
       \/ /\ AtError
          /\ srv' = "dead" /\ line' = sdsempty /\ CliExit(1)
          /\ UNCHANGED <<consumed, bulklen, shown>>
    /\ UNCHANGED <<argv, cmd, totlen, reply, inbox, bulk, crlf>>

\* Mutant: one read() is taken for the whole.
ReadOnce(count, have, next) ==
    \/ /\ have < count /\ Data
       /\ \E n \in 1..Min({count - have, inbox - consumed}) : consumed' = consumed + n
       /\ cliAt' = next /\ UNCHANGED srv
    \/ /\ have >= count \/ AtEnd \/ AtError
       /\ srv' = IF have < count /\ AtError THEN "dead" ELSE srv
       /\ cliAt' = next /\ UNCHANGED consumed

\* A read() of anetRead(fd, buf, count) with totlen = have. The callers go on at next
\* whatever it returns; a negative count is refused by read().
anetRead(count, have, next) ==
    \/ /\ have < count /\ Data
       /\ \E n \in 1..Min({count - have, inbox - consumed}) : consumed' = consumed + n
       /\ UNCHANGED <<cliAt, srv>>
    \/ /\ have >= count \/ AtEnd \/ AtError
       /\ srv' = IF have < count /\ AtError THEN "dead" ELSE srv
       /\ cliAt' = next /\ UNCHANGED consumed

ReadBody ==
    /\ cliAt = "body"
    /\ anetRead(bulklen, Len(bulk), "crlf")
    /\ bulk' = bulk \o SubSeq(reply, consumed + 1, consumed')
    /\ UNCHANGED <<argv, cmd, totlen, reply, inbox, line, bulklen, crlf, shown, status, connected>>

ReadCrlf ==
    /\ cliAt = "crlf"
    /\ anetRead(2, crlf, "print")
    /\ crlf' = crlf + (consumed' - consumed)
    /\ UNCHANGED <<argv, cmd, totlen, reply, inbox, line, bulk, bulklen, shown, status, connected>>

\* The rest of cliReadBulkReply: all of the buffer is totlen. For a negative length
\* malloc() has returned NULL, and fwrite() fails or the process is killed.
PrintBulk ==
    /\ cliAt = "print"
    /\ \/ /\ bulklen >= 0
          /\ shown' = bulk \o [i \in 1..(bulklen - Len(bulk)) |-> JUNK]
          /\ CliExit(0)
       \/ /\ bulklen < 0
          /\ CliExit(1) /\ UNCHANGED shown
       \/ /\ bulklen < 0
          /\ cliAt' = "killed" /\ UNCHANGED <<shown, status, connected>>
    /\ UNCHANGED <<argv, cmd, totlen, srv, reply, inbox, consumed, line, bulk, bulklen, crlf>>
-------------------------------------------------------------------------------
\* The server answers a request it has got completely, in any pieces.
ServerSends ==
    /\ srv = "open" /\ connected /\ cliAt # "start"
    /\ totlen = sdslen(cmd) /\ inbox < Len(reply)
    /\ \E n \in (inbox + 1)..Len(reply) : inbox' = n
    /\ UNCHANGED <<cliAt, argv, cmd, totlen, srv, reply, consumed, line, bulk, bulklen, crlf, shown, status, connected>>

\* It closes, or is gone with a reset; a write to a socket it has closed brings a reset.
ServerLeaves ==
    /\ connected
    /\ \/ srv = "open" /\ srv' \in {"closed", "reset"}
       \/ srv = "closed" /\ srv' = "broken"
    /\ UNCHANGED <<cliAt, argv, cmd, totlen, reply, inbox, consumed, line, bulk, bulklen, crlf, shown, status, connected>>

CliInit ==
    /\ cliAt = "start" /\ argv \in CliArgs /\ cmd = sdsempty /\ totlen = 0
    /\ srv = "open" /\ reply \in CliReplies /\ inbox = 0 /\ consumed = 0
    /\ line = sdsempty /\ bulk = <<>> /\ bulklen = 0 /\ crlf = 0
    /\ shown = NOTHING /\ status = 0 /\ connected = FALSE

CliStep == CliRefused \/ clientConnect \/ anetWrite \/ cliReadLine \/ ReadBody \/ ReadCrlf \/ PrintBulk

CliNext == CliStep \/ ServerSends \/ ServerLeaves
-------------------------------------------------------------------------------
CliEnded == cliAt \in {"exit", "killed"}
SdsSound(s) == s.free >= 0 /\ sdslen(s) + s.free = s.room

\* The request in the protocol.
RequestOf(args) ==
    IF Len(args) = 3
    THEN args[1] \o <<" ">> \o args[2] \o <<" ">> \o Decimal(Len(args[3])) \o CRLF \o args[3] \o CRLF
    ELSE args[1] \o <<" ">> \o args[2] \o CRLF

\* The first line of a stream of bytes, and what is behind it.
LineEnd(s) == SelectInSeq(s, LAMBDA c : c = "\n")      \* 0 if there is none
Stripped(s) == SelectSeq(s, LAMBDA c : c \notin {"\r", "\n"})
FirstLine(s) == Stripped(IF LineEnd(s) = 0 THEN s ELSE SubSeq(s, 1, LineEnd(s)))
Behind(s) == IF LineEnd(s) = 0 THEN <<>> ELSE SubSeq(s, LineEnd(s) + 1, Len(s))

\* What a user should see of a stream.
Answer(s) ==
    IF rc.bulk THEN FirstLine(s)
    ELSE IF FirstLine(s) = <<"n", "i", "l">> THEN <<"(nil)">>
    ELSE SubSeq(Behind(s), 1, Min({atoi(FirstLine(s)), Len(Behind(s))}))

\* A stream that answers the command completely.
Whole(s) ==
    /\ LineEnd(s) > 0
    /\ \/ rc.bulk
       \/ FirstLine(s) = <<"n", "i", "l">>
       \/ Len(Behind(s)) >= atoi(FirstLine(s)) + 2

\* The answer the client shows is the one the server sent, however write() and read() cut
\* the streams: a request is on the wire as the protocol wants it and complete before the
\* answer counts, the strings never outgrow their memory, and the descriptor is closed.
\* Only when the server ends the connection too early is less known, and then the client
\* still shows as many bytes as were announced, the missing ones uninitialised, and reports
\* success, since the results of anetWrite and anetRead are not looked at.
AnswerShown ==
    /\ SdsSound(cmd) /\ SdsSound(line)
    /\ connected => cmd.text = RequestOf(argv)
    /\ cliAt = "exit" => ~connected
    /\ shown # NOTHING =>
         /\ status = 0
         /\ srv = "open" => totlen = sdslen(cmd) /\ Whole(SubSeq(reply, 1, consumed))
         /\ IsPrefix(Answer(SubSeq(reply, 1, consumed)), shown)
         /\ Whole(SubSeq(reply, 1, consumed)) => shown = Answer(reply)
         /\ \A i \in (Len(Answer(SubSeq(reply, 1, consumed))) + 1)..Len(shown) : shown[i] = JUNK

\* The client ends once the answer is there or the server has left, and not before: after a
\* reply it does not expect, as an error line in place of a bulk, it waits for two more
\* bytes until the server closes (redis-cli.c:104).
ClientEnds ==
    (connected /\ (srv # "open" \/ (inbox = Len(reply) /\ Whole(reply)))) ~> CliEnded
===============================================================================
