------------------------------ MODULE Decoder ------------------------------
(***************************************************************************)
(* The Go code that takes the argument buffer of an event apart again,     *)
(* beside the programs of Tracer that fill it.  It takes the items that    *)
(* the type of each argument makes it expect.                              *)
(***************************************************************************)
EXTENDS Tracer

Bad == <<"bad">>
Take(buf, shapes) ==
    IF buf # <<>> /\ Head(buf) \in shapes THEN Tail(buf) ELSE Bad

RECURSIVE parse_STRING_ARRAY(_, _)
parse_STRING_ARRAY(buf, n) ==
    IF n = 0 \/ buf = Bad THEN buf
    ELSE LET rest == Take(buf, {"reg"})
         IN IF rest # <<>> /\ Head(rest) = "magic" THEN Tail(rest)
            ELSE parse_STRING_ARRAY(Take(rest, {"text", "empty"}), n - 1)

RECURSIVE Vectors(_, _)
Vectors(buf, n) ==
    IF n = 0 \/ buf = Bad THEN buf
    ELSE Vectors(Take(Take(buf, {"iovec"}), {"text", "empty"}), n - 1)

parse_IOVEC(buf, count) ==
    Vectors(Take(buf, {"reg"}), LeastOf(count, MAX_IOV_COUNT))

ParseArg(type, buf, count) ==
    LET rest == Take(buf, {"reg"})
    IN CASE type = "int" -> rest
         [] type = "string" -> Take(rest, {"text", "empty"})
         [] type = "string_array" -> parse_STRING_ARRAY(rest, MAX_LOOP_COUNT)
         [] type = "iovec" -> parse_IOVEC(rest, count)

RECURSIVE ParseEnterPoint(_, _, _)
ParseEnterPoint(types, buf, count) ==
    IF types = <<>> \/ buf = Bad THEN buf
    ELSE ParseEnterPoint(Tail(types), ParseArg(Head(types), buf, count), count)

-----------------------------------------------------------------------------
\* An event that is submitted is decoded in step: ParseEnterPoint finds every
\* item where it expects it and leaves none.  Excepted are the events the
\* encoder itself cut short (MAX_OP_COUNT used up, no room for even an empty
\* item, an operation left over from such an event, an iovec that could not
\* be read) and those whose vector count is 0 or above MAX_IOV_COUNT, where
\* read_args and parse_IOVEC count differently.
DecodedInStep ==
    \A c \in CPUs :
        LET e == cpu[c]
        IN e.pc = "done" =>
            \/ e.skip \/ e.odd
            \/ HasVector(e.sys) /\ e.count \notin 1..MAX_IOV_COUNT
            \/ ParseEnterPoint(Args[e.sys], e.buf, e.count) = <<>>
=============================================================================
