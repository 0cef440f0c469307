----------------------------- MODULE MCLibrary ------------------------------
(***************************************************************************)
(* The library the boot programs share, one call at a time: a division, a  *)
(* command line, a compressed file or a search for memory.  Division is in *)
(* base 4 with quads of 8 bits: every pair of unsigned arguments, signed   *)
(* ones around the corners; command lines are in a buffer of 64 characters *)
(* with numbers of 8 bits; the decompressor has its real tables; pages are *)
(* of three bytes.                                                         *)
(***************************************************************************)
EXTENDS Qdivrem, FreeMemory, CommandOptions

VARIABLES
  job,                                                \* "divide", "parse", "unzip", "find"
  buf, last, token, i, argsPtr, args,                 \* CommandLine
  file, sizeOnly, rd, dest, start, destLen, bfinal, left, offs,
  hlit, hdist, lengths, codeTree, ltree, dtree,       \* Inflate
  at                                                  \* FindMemory

Samples == INSTANCE GzipFiles
Lines   == INSTANCE CommandLines

CL == INSTANCE CommandLine WITH
        Inputs <- Lines!Lines, BufSize <- 64
Unzip == INSTANCE Inflate WITH
           Files <- Samples!Samples, Crc32 <- Samples!Check

MM   == INSTANCE MemoryMaps
FM   == INSTANCE FindMemory WITH
          i <- at, Maps <- MM!SmallMaps, Lengths <- MM!SmallLengths, Limits <- MM!SmallLimits

(* What the theorems OptionsAreRead and HighestIsFound assume of them.      *)
ASSUME LinesAssumption == CL!Readable
ASSUME SearchAssumption ==
  MM!SmallMaps \subseteq Seq(Block) /\ MM!SmallLengths \subseteq Nat /\ MM!SmallLimits \subseteq Nat

divideVars == <<in, neg, u, v, q, n, m, d, j, qhat, rhat, quo, rem>>
parseVars  == <<input, place, buf, last, token, i, argsPtr, args, config>>
unzipVars  == <<file, sizeOnly, rd, dest, start, destLen, bfinal, left, offs,
                hlit, hdist, lengths, codeTree, ltree, dtree>>
findVars   == <<mmap, len, highest, limit, step, at, found, block>>
callVars      == <<job, pc, divideVars, parseVars, unzipVars, findVars>>

MCInputs ==
  [a : 0..255, b : 0..255, signed : {FALSE}]
    \cup [a : {0, 1, 5, 100, 127, 128, 129, 200, 255},
          b : {1, 2, 3, 7, 64, 127, 128, 130, 253, 254, 255}, signed : {TRUE}]

(* 0 / 1, which is done: the invariants of Qdivrem are invariants of the    *)
(* run, whatever the job is.                                                *)
NoDivision ==
  /\ in = [a |-> 0, b |-> 1, signed |-> FALSE] /\ neg = FALSE /\ u = 0 /\ v = 0 /\ q = 0
  /\ n = 0 /\ m = 0 /\ d = 0 /\ j = 0 /\ qhat = 0 /\ rhat = 0 /\ quo = 0 /\ rem = 0
NoLine ==
  /\ input = 0 /\ place = "none" /\ buf = 0 /\ last = 0 /\ token = 0 /\ i = 0 /\ argsPtr = 0 /\ args = 0
  /\ config = 0
NoFile ==
  /\ file = 0 /\ sizeOnly = 0 /\ rd = 0 /\ dest = 0 /\ start = 0 /\ destLen = 0 /\ bfinal = 0
  /\ left = 0 /\ offs = 0 /\ hlit = 0 /\ hdist = 0 /\ lengths = 0 /\ codeTree = 0
  /\ ltree = 0 /\ dtree = 0

NoSearch ==
  /\ mmap = 0 /\ len = 0 /\ highest = 0 /\ limit = 0 /\ step = "none" /\ at = 0
  /\ found = 0 /\ block = 0

CallInit ==
  \/ job = "divide" /\ Init /\ NoLine /\ NoFile /\ NoSearch
  \/ job = "parse" /\ CL!Init /\ pc = "none" /\ NoDivision /\ NoFile /\ NoSearch
  \/ job = "unzip" /\ Unzip!Init /\ NoDivision /\ NoLine /\ NoSearch
  \/ job = "find" /\ FM!Init /\ pc = "none" /\ NoDivision /\ NoLine /\ NoFile

Divide     == job = "divide" /\ Next /\ UNCHANGED <<job, parseVars, unzipVars, findVars>>
Parse      == job = "parse" /\ CL!Next /\ UNCHANGED <<job, pc, divideVars, unzipVars, findVars>>
Decompress == job = "unzip" /\ Unzip!Next /\ UNCHANGED <<job, divideVars, parseVars, findVars>>
Search     == job = "find" /\ FM!Next /\ UNCHANGED <<job, pc, divideVars, parseVars, unzipVars>>

(* A search goes on; the other jobs are about results only.                 *)
CallNext == Divide \/ Parse \/ Decompress \/ Search
CallSpec == CallInit /\ [][CallNext]_callVars /\ WF_callVars(Search)

(* OutputIsRight of Inflate: the file is what was compressed                *)
(* (tinf_gzip_uncompress).                                                  *)
FileIsRestored  == job = "unzip" => Unzip!OutputIsRight

(* mbi_find_memory returns on maps without a block inside a page (mbi.c).   *)
ReturnsOnOrderedMap ==
  job = "find" /\ FM!Ascending /\ (\A k \in 1..Len(mmap) : HasPageBoundary(mmap[k]))
    ~> step = "done"
=============================================================================
