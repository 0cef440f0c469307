---------------------------- MODULE CommandLine -----------------------------
(***************************************************************************)
(* How morbo, bender and zapp read their command lines: parse_cmdline of   *)
(* each, with strncpy, strtok_r (strtok.c), strcmp, strncmp and strtoull.  *)
(* A character is a string; an option, and the prefix of an option with    *)
(* arguments, is one character.  strtok_r writes into the buffer, and zapp *)
(* takes its arguments out of a token with a second strtok_r while the     *)
(* first one is under way.  A pointer is a position in the buffer, NULL 0. *)
(***************************************************************************)
EXTENDS CommandOptions

CONSTANTS Inputs,    \* [prog, text]: a program and its command line
          BufSize    \* of cmdline_buf                      (256)

NUL == ""

(* Lines that fit into the buffer with a NUL behind them, and have no more  *)
(* disabledmar= than the table they go into has room for: the code does not *)
(* see that it is full.                                                     *)
Readable ==
  /\ ULLMax \in Nat /\ MaxFixups \in Nat /\ UShort \in Nat \ {0} /\ BufSize \in Nat
  /\ \A l \in Inputs : /\ l.prog \in {"morbo", "bender", "zapp"}
                       /\ l.text \in Seq(STRING) /\ Len(l.text) < BufSize
                       /\ \A k \in 1..Len(l.text) : l.text[k] # NUL
                       /\ Cardinality({k \in 1..Len(l.text) : l.text[k] = "disabledmar="}) <= MaxFixups

(* Options with three arguments and one argument (zapp).                    *)
WithArguments == {"fixrmrr=", "addrmrr=", "disabledmar="}
Arguments(p) == IF p = "disabledmar=" THEN 1 ELSE 3

VARIABLES
  buf, last, token, i,\* cmdline_buf, save pointers and tokens of the loop
  argsPtr, args       \* inner save pointer, the numbers read so far

vars == <<input, place, buf, last, token, i, argsPtr, args, config>>

Init ==
  /\ input \in Inputs /\ place = "copy"
  /\ buf = <<>> /\ last = 0 /\ token = 0 /\ i = 0 /\ argsPtr = 0 /\ args = <<>>
  /\ config = Default

-----------------------------------------------------------------------------
(* strncpy: all of the buffer is written.                                   *)
Strncpy(from, n) == [k \in 1..n |-> IF k <= Len(from) THEN from[k] ELSE NUL]

FirstFrom(b, k, S) == CHOOSE p \in k..Len(b) : b[p] \in S /\ \A x \in k..(p - 1) : b[x] \notin S
FirstNotIn(b, k, c) == CHOOSE p \in k..Len(b) : b[p] # c /\ \A x \in k..(p - 1) : b[x] = c

(* strtok_r with a single delimiter; s is NULL in a continued search.       *)
Strtok(b, s, save, delim) ==
  LET from == IF s = 0 THEN save ELSE s
      tok  == FirstNotIn(b, from, delim)
      end  == FirstFrom(b, tok, {delim, NUL})
  IN IF from = 0 THEN [tok |-> 0, buf |-> b, save |-> save]
     ELSE IF b[tok] = NUL THEN [tok |-> 0, buf |-> b, save |-> 0]
     ELSE IF b[end] = NUL THEN [tok |-> tok, buf |-> b, save |-> 0]
     ELSE [tok |-> tok, buf |-> [b EXCEPT ![end] = NUL], save |-> end + 1]

(* The string a pointer points to.                                          *)
Str(b, p) == SubSeq(b, p, FirstFrom(b, p, {NUL}) - 1)

(* strtoull in base 0: `any' is -1 from the first overflow on.              *)
AddDigit(a, c, base) ==
  LET cutoff == ULLMax \div base
      cutlim == ULLMax % base
  IN IF ~a.more \/ c >= base THEN [a EXCEPT !.more = FALSE]
     ELSE IF a.any < 0 \/ a.val > cutoff \/ (a.val = cutoff /\ c > cutlim)
       THEN [a EXCEPT !.any = -1]
     ELSE [a EXCEPT !.any = 1, !.val = a.val * base + c]

Accumulated(s, base) ==
  LET acc[k \in 0..Len(s)] ==
        IF k = 0 THEN [any |-> 0, val |-> 0, more |-> TRUE]
                 ELSE AddDigit(acc[k - 1], DigitOf(s[k]), base)
  IN acc[Len(s)]

Strtoull(s) ==
  LET r == Accumulated(DigitsOf(Unsigned(s)), BaseOf(Unsigned(s))) IN
  IF r.any < 0 THEN ULLMax
  ELSE IF s # <<>> /\ Head(s) = "-" THEN (ULLMax + 1 - r.val) % (ULLMax + 1)
  ELSE r.val

-----------------------------------------------------------------------------
Goto(from, to) == place = from /\ place' = to

Copy ==
  /\ Goto("copy", "loop") /\ buf' = Strncpy(input.text, BufSize)
  /\ UNCHANGED <<input, last, token, i, argsPtr, args, config>>

(* The head of the loop.  "Our name is not interesting."                    *)
NextToken ==
  /\ place = "loop"
  /\ LET t == Strtok(buf, IF i = 0 THEN 1 ELSE 0, last, " ") IN
     /\ buf' = t.buf /\ last' = t.save /\ token' = t.tok
     /\ place' = IF t.tok = 0 THEN "done" ELSE IF i = 0 THEN "loop" ELSE "option"
  /\ i' = i + 1
  /\ UNCHANGED <<input, argsPtr, args, config>>

ParseMorbo(o) ==
  CASE o = "noapic"       -> [config EXCEPT !.apic = FALSE]
    [] o = "quiet"        -> [config EXCEPT !.verbose = FALSE]
    [] o = "keepgoing"    -> [config EXCEPT !.keepGoing = TRUE]
    [] o = "postedwrites" -> [config EXCEPT !.posted = TRUE]
    [] o = "wait"         -> [config EXCEPT !.wait = TRUE]
    [] o \in {"s100", "s200", "s400"} -> [config EXCEPT !.speed = o]
    [] OTHER              -> config

ParseBender(o) ==
  CASE o = "promisc"       -> [config EXCEPT !.promisc = TRUE]
    [] o = "phys_max=256M" -> [config EXCEPT !.physMax = "256M"]
    [] OTHER               -> config

(* strcmp: the option must be the whole token.                              *)
Flag ==
  /\ Goto("option", "loop") /\ input.prog # "zapp"
  /\ LET s == Str(buf, token)
         o == IF Len(s) = 1 THEN Head(s) ELSE NUL IN
     config' = IF input.prog = "morbo" THEN ParseMorbo(o) ELSE ParseBender(o)
  /\ UNCHANGED <<input, buf, last, token, i, argsPtr, args>>

(* The assertions of zapp.  The one for disabledmar= looks at the count of  *)
(* the additions.                                                           *)
TooMany ==
  \/ buf[token] = "fixrmrr=" /\ Len(config.fixups) = MaxFixups
  \/ buf[token] \in {"addrmrr=", "disabledmar="} /\ Len(config.additions) = MaxFixups
TableFull ==
  /\ Goto("option", "failed") /\ input.prog = "zapp" /\ TooMany
  /\ UNCHANGED <<input, buf, last, token, i, argsPtr, args, config>>

(* strncmp: the option must begin with the prefix.                          *)
NoPrefix ==
  /\ Goto("option", "loop") /\ input.prog = "zapp" /\ buf[token] \notin WithArguments
  /\ UNCHANGED <<input, buf, last, token, i, argsPtr, args, config>>

(* strtoull(strtok_r(s, ",", &args_ptr), NULL, 0), of NULL if no argument   *)
(* is left.                                                                 *)
ReadArgument(s) ==
  LET t == Strtok(buf, s, argsPtr, ",") IN
  /\ buf' = t.buf /\ argsPtr' = t.save
  /\ args' = Append(args, IF t.tok = 0 THEN AtNull ELSE Strtoull(Str(t.buf, t.tok)))

FirstArgument ==
  /\ Goto("option", "args") /\ input.prog = "zapp" /\ buf[token] \in WithArguments
  /\ ~TooMany /\ ReadArgument(token + 1)
  /\ UNCHANGED <<input, last, token, i, config>>

(* Mutant: the save pointer of the outer loop is used for the arguments.    *)
NextArgumentOuter ==
  /\ place = "args" /\ place' = "args" /\ Len(args) < Arguments(buf[token])
  /\ LET t == Strtok(buf, 0, argsPtr, ",") IN
     /\ buf' = t.buf /\ argsPtr' = t.save /\ last' = t.save
     /\ args' = Append(args, IF t.tok = 0 THEN AtNull ELSE Strtoull(Str(t.buf, t.tok)))
  /\ UNCHANGED <<input, token, i, config>>

NextArgument ==
  /\ place = "args" /\ place' = "args" /\ Len(args) < Arguments(buf[token])
  /\ ReadArgument(0)
  /\ UNCHANGED <<input, last, token, i, config>>

(* The entry of the table.                                                  *)
Entry == [who |-> args[1] % UShort, base |-> args[2], size |-> args[3]]
Store ==
  /\ Goto("args", "loop") /\ Len(args) = Arguments(buf[token])
  /\ config' = CASE buf[token] = "fixrmrr=" -> [config EXCEPT !.fixups = Append(@, Entry)]
                 [] buf[token] = "addrmrr=" -> [config EXCEPT !.additions = Append(@, Entry)]
                 [] OTHER                   -> [config EXCEPT !.disabled = Append(@, args[1])]
  /\ argsPtr' = 0 /\ args' = <<>>
  /\ UNCHANGED <<input, buf, last, token, i>>

Next ==
  \/ Copy \/ NextToken \/ Flag
  \/ TableFull \/ NoPrefix \/ FirstArgument \/ NextArgument \/ Store

Spec == Init /\ [][Next]_vars
=============================================================================
