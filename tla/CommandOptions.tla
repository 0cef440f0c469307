--------------------------- MODULE CommandOptions ----------------------------
(***************************************************************************)
(* What a command line says, and that morbo, bender and zapp do it:        *)
(* parse_cmdline of each without the cursors by which CommandLine reads    *)
(* the line.  A character is a string; an option, and the prefix of an     *)
(* option with arguments, is one character.  Letters are lower case, and   *)
(* the blank is the only white space.                                      *)
(***************************************************************************)
EXTENDS Integers, Sequences, FiniteSets

CONSTANTS ULLMax,    \* the largest unsigned long long      (2^64 - 1)
          MaxFixups, \* entries of zapp's tables            (32)
          AtNull,    \* the number strtoull finds at address 0
          UShort     \* number of values of a uint16_t      (2^16)

VARIABLES
  input,             \* the program and its command line
  place,             \* where the program is: "done", "failed"
  config             \* what the program will do

Default ==
  [apic |-> TRUE, verbose |-> TRUE, keepGoing |-> FALSE, posted |-> FALSE,
   wait |-> FALSE, speed |-> "max", promisc |-> FALSE, physMax |-> "2G",
   fixups |-> <<>>, additions |-> <<>>, disabled |-> <<>>]

-----------------------------------------------------------------------------
(* Numbers, as strtoull in base 0 takes them apart.                         *)
DigitChars == <<"0", "1", "2", "3", "4", "5", "6", "7", "8", "9",
                "a", "b", "c", "d", "e", "f">>
DigitOf(c) == IF \E d \in 0..15 : DigitChars[d + 1] = c
                THEN CHOOSE d \in 0..15 : DigitChars[d + 1] = c
                ELSE 99 \* no digit

Prefixed(s) == Len(s) >= 3 /\ s[1] = "0" /\ s[2] = "x" /\ DigitOf(s[3]) < 16
Unsigned(s) == IF s # <<>> /\ Head(s) \in {"-", "+"} THEN Tail(s) ELSE s
BaseOf(s)   == IF Prefixed(s) THEN 16 ELSE IF s # <<>> /\ Head(s) = "0" THEN 8 ELSE 10
DigitsOf(s) == IF Prefixed(s) THEN SubSeq(s, 3, Len(s)) ELSE s

(* The value of the first digits of s, and how many characters are digits.  *)
ValueOf(s, base) ==
  LET val[k \in 0..Len(s)] == IF k = 0 THEN 0 ELSE base * val[k - 1] + DigitOf(s[k])
  IN val
DigitCount(s, base) ==
  CHOOSE k \in 0..Len(s) : /\ \A l \in 1..k : DigitOf(s[l]) < base
                           /\ k = Len(s) \/ DigitOf(s[k + 1]) >= base
Number(s) ==
  LET base   == BaseOf(Unsigned(s))
      digits == DigitsOf(Unsigned(s))
      value  == ValueOf(digits, base)[DigitCount(digits, base)]
  IN IF value > ULLMax THEN ULLMax
     ELSE IF s # <<>> /\ Head(s) = "-" /\ value # 0 THEN ULLMax + 1 - value ELSE value

-----------------------------------------------------------------------------
Line == input.text

(* The longest run from k on without one of these characters.               *)
EndOfRun(k, S) ==
  CHOOSE e \in k..Len(Line) : /\ \A x \in k..e : Line[x] \notin S
                              /\ e = Len(Line) \/ Line[e + 1] \in S
Run(k, S) == SubSeq(Line, k, EndOfRun(k, S))

(* Where a word begins.  The first is the name of the program.              *)
Words   == {k \in 1..Len(Line) : Line[k] # " " /\ (k = 1 \/ Line[k - 1] = " ")}
Options == {k \in Words : \E l \in Words : l < k}
EndOfWord(k) == EndOfRun(k, {" "})
Word(k)      == Run(k, {" "})

(* The elements of a set of numbers in their order.                         *)
Rank(K, k) == Cardinality({l \in K : l <= k})
InOrder(K) == [x \in 1..Cardinality(K) |-> CHOOSE k \in K : Rank(K, k) = x]

(* The arguments of the option at k, behind the prefix.  For one that is    *)
(* missing strtok_r returns NULL, and strtoull reads what is there.         *)
ArgumentsOf(k) ==
  {a \in (k + 1)..EndOfWord(k) : Line[a] # "," /\ (a = k + 1 \/ Line[a - 1] = ",")}
Argument(k, x) ==
  IF x <= Cardinality(ArgumentsOf(k)) THEN Number(Run(InOrder(ArgumentsOf(k))[x], {",", " "}))
                                      ELSE AtNull

(* What the options at K say.                                               *)
Given(K, o) == \E k \in K : Word(k) = <<o>>
Speeds(K)   == {k \in K : Word(k) \in {<<"s100">>, <<"s200">>, <<"s400">>}}
Latest(K)   == CHOOSE k \in K : \A l \in K : l <= k
LastSpeed(K) == IF Speeds(K) = {} THEN "max" ELSE Word(Latest(Speeds(K)))[1]

WithPrefix(K, p) == InOrder({k \in K : Line[k] = p})
Region(k) == [who |-> Argument(k, 1) % UShort, base |-> Argument(k, 2), size |-> Argument(k, 3)]
Regions(K, p) == LET f == WithPrefix(K, p) IN [x \in 1..Len(f) |-> Region(f[x])]
Disabled(K) == LET f == WithPrefix(K, "disabledmar=") IN [x \in 1..Len(f) |-> Argument(f[x], 1)]

Says(K) ==
  CASE input.prog = "morbo" ->
         [Default EXCEPT !.apic = ~Given(K, "noapic"), !.verbose = ~Given(K, "quiet"),
            !.keepGoing = Given(K, "keepgoing"), !.posted = Given(K, "postedwrites"),
            !.wait = Given(K, "wait"), !.speed = LastSpeed(K)]
    [] input.prog = "bender" ->
         [Default EXCEPT !.promisc = Given(K, "promisc"),
            !.physMax = IF Given(K, "phys_max=256M") THEN "256M" ELSE "2G"]
    [] OTHER ->
         [Default EXCEPT !.fixups = Regions(K, "fixrmrr="),
            !.additions = Regions(K, "addrmrr="), !.disabled = Disabled(K)]

(* Every option of the command line, and nothing else, is in force, with    *)
(* its numbers, too large ones being the largest, missing ones what is at   *)
(* address 0: the separators the loop and zapp's arguments overwrite are    *)
(* nobody else's, and no option takes an argument of the next one           *)
(* (parse_cmdline of morbo.c, bender.c and zapp.c, strtok_r, strtoull).  A  *)
(* line is refused only if a table is full.                                 *)
OptionsInForce ==
  /\ place = "done" => config = Says(Options)
  /\ place = "failed" => \/ Len(Regions(Options, "fixrmrr=")) > MaxFixups
                         \/ Len(Regions(Options, "addrmrr=")) >= MaxFixups
=============================================================================
