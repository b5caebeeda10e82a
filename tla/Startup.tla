------------------------------- MODULE Startup -------------------------------
(***************************************************************************)
(* What Master::Init does before anything runs, and what lasts: Title::Init*)
(* and Title::Set (mpic/title.cc), which write over the memory of argv and *)
(* the environment, and Option::Init (mpic/option.cc), which copies the    *)
(* command line and checks the files the daemon will work with.            *)
(*                                                                         *)
(* Memory maps an address to a byte.  From address 1 on lies the block the *)
(* kernel has made: the strings of argv and environ one after the other,   *)
(* and something else behind them.  An entry of environ may have been      *)
(* replaced since by a string elsewhere, here at addresses up to 0.  What  *)
(* malloc() returns lies behind the block.  The byte at an address depends *)
(* on the address, so that strings tell themselves apart.                  *)
(*                                                                         *)
(* As in Master, Bad... is a wrong version of the definition after it.     *)
(***************************************************************************)
EXTENDS FileName

CONSTANTS
    MaxSize,        \* bound: bytes of the block
    SetLength,      \* bound: characters of a string that replaces another
    TitleLengths    \* lengths of a title

ASSUME BoundsAssumption ==
    /\ MaxSize \in Nat /\ SetLength \in Nat
    /\ TitleLengths \subseteq Nat

VARIABLES
    stage,      \* where Master::Init is, "up", "running", or how the start failed
    memory,     \* the bytes of the process that matter
    argv,       \* g_argv: addresses
    environ,    \* environ: addresses
    g_last,     \* g_last, or None before Title::Init
    visited,    \* entries the loop of Title::Init has visited
    p,          \* the free memory malloc() returns, less what has been used
    given,      \* the block's size and the strings there were to start with
    option      \* the members of Option, once Option::Init has accepted them

vars == <<stage, memory, argv, environ, g_last, visited, p, given, option>>
titleVars == <<memory, argv, environ, g_last, visited, p>>

-----------------------------------------------------------------------------
Nul == 0
TitleByte == -1
Guard == -2         \* what lies behind the block
None == -1

(* q + strlen(q), and the string at q *)
EndsAt(mem, q, e) == q <= e /\ mem[e] = Nul /\ \A a \in q .. e - 1 : mem[a] # Nul
StrEnd(mem, q) == CHOOSE e \in DOMAIN mem : EndsAt(mem, q, e)
CString(mem, q) == [k \in 1 .. StrEnd(mem, q) - q |-> mem[q + k - 1]]

Strings(mem, ps) == [n \in DOMAIN ps |-> CString(mem, ps[n])]

Block(size, nuls) ==
    [a \in -SetLength .. size + 1 |->
        IF a = size + 1 THEN Guard
        ELSE IF a \in nuls \cup {0} THEN Nul
        ELSE IF a > 0 THEN a ELSE 1 - a]

(* Strings at these addresses fill a block of this size. *)
Fills(mem, ps, size) ==
    /\ ps[1] = 1
    /\ \A n \in 1 .. Len(ps) - 1 : ps[n + 1] = StrEnd(mem, ps[n]) + 1
    /\ StrEnd(mem, ps[Len(ps)]) = size

Init ==
    /\ stage = "title"
    /\ \E size \in 1 .. MaxSize :
       \E nuls \in SUBSET (1 .. size), number \in 1 .. size :
       \E ps \in [1 .. number -> 1 .. size], argc \in 1 .. number :
          /\ size \in nuls
          /\ memory = Block(size, nuls)
          /\ Fills(memory, ps, size)
          /\ argv = [n \in 1 .. argc |-> ps[n]]
          /\ environ \in {env \in [1 .. number - argc -> -SetLength .. size] :
                            \A n \in DOMAIN env : env[n] > 0 => env[n] = ps[argc + n]}
          /\ p = size + 2
          /\ given = [size |-> size, argv |-> Strings(memory, argv),
                      environ |-> Strings(memory, environ)]
    /\ g_last = None
    /\ visited = 0
    /\ option = [cmdline |-> <<>>, name |-> <<>>]

-----------------------------------------------------------------------------
(* Title::Init *)

(* The first loop adds up what the environment needs at most.               *)
TitleInit ==
    /\ stage = "title"
    /\ stage' = "argv"
    /\ g_last' = argv[1]
    /\ UNCHANGED <<memory, argv, environ, visited, p, given, option>>

(* malloc() failed; Master::Init does not look at the result. *)
TitleInitFails ==
    /\ stage = "title"
    /\ stage' = "options"
    /\ UNCHANGED <<titleVars, given, option>>

(* An iteration of the loop that looks for the end of the strings of argv. *)
VisitArgument ==
    /\ stage = "argv"
    /\ visited < Len(argv)
    /\ LET q == argv[visited + 1]
       IN g_last' = IF g_last = q THEN StrEnd(memory, q) + 1 ELSE g_last
    /\ visited' = visited + 1
    /\ UNCHANGED <<stage, memory, argv, environ, p, given, option>>

ArgumentsVisited ==
    /\ stage = "argv"
    /\ visited = Len(argv)
    /\ stage' = "environ"
    /\ visited' = 0
    /\ UNCHANGED <<memory, argv, environ, g_last, p, given, option>>

(* The next loop: a string of the environment that goes on where the last   *)
(* one ended moves to the new memory, and its place is free for the title.  *)
BadMoveString ==
    /\ stage = "environ"
    /\ visited < Len(environ)
    /\ LET q == environ[visited + 1]
           size == StrEnd(memory, q) + 1 - q
       IN /\ g_last = q
          /\ g_last' = q + size
          /\ memory' = [a \in DOMAIN memory \cup p .. p + size - 1 |->
                           IF a < p THEN memory[a] ELSE memory[q + a - p]]
          /\ environ' = [environ EXCEPT ![visited + 1] = p]
          /\ p' = p
    /\ visited' = visited + 1
    /\ UNCHANGED <<stage, argv, given, option>>

MoveString ==
    /\ stage = "environ"
    /\ visited < Len(environ)
    /\ LET q == environ[visited + 1]
           size == StrEnd(memory, q) + 1 - q
       IN /\ g_last = q
          /\ g_last' = q + size
          /\ memory' = [a \in DOMAIN memory \cup p .. p + size - 1 |->
                           IF a < p THEN memory[a] ELSE memory[q + a - p]]
          /\ environ' = [environ EXCEPT ![visited + 1] = p]
          /\ p' = p + size
    /\ visited' = visited + 1
    /\ UNCHANGED <<stage, argv, given, option>>

KeepString ==
    /\ stage = "environ"
    /\ visited < Len(environ)
    /\ g_last # environ[visited + 1]
    /\ visited' = visited + 1
    /\ UNCHANGED <<stage, memory, argv, environ, g_last, p, given, option>>

TitleInitDone ==
    /\ stage = "environ"
    /\ visited = Len(environ)
    /\ stage' = "options"
    /\ g_last' = g_last - 1
    /\ UNCHANGED <<memory, argv, environ, visited, p, given, option>>

(* Title::Set with a title of n characters: strncpy() and memset() write    *)
(* every byte up to g_last but not g_last itself, a Nul from the start.     *)
BadSetTitle(n) ==
    /\ g_last # None
    /\ memory' = [a \in DOMAIN memory |->
                     IF a \notin argv[1] .. g_last THEN memory[a]
                     ELSE IF a < argv[1] + n THEN TitleByte ELSE Nul]
    /\ argv' = <<argv[1]>>
    /\ UNCHANGED <<environ, g_last, visited, p, given, option>>

SetTitle(n) ==
    /\ g_last # None
    /\ memory' = [a \in DOMAIN memory |->
                     IF a \notin argv[1] .. g_last - 1 THEN memory[a]
                     ELSE IF a < argv[1] + n THEN TitleByte ELSE Nul]
    /\ argv' = <<argv[1]>>
    /\ UNCHANGED <<environ, g_last, visited, p, given, option>>

(* Without Title::Init the length is that of the address space. *)
SetTitleCrashes ==
    /\ g_last = None
    /\ stage' = "crashed"
    /\ UNCHANGED <<titleVars, given, option>>

-----------------------------------------------------------------------------
(* Option::Init.  A file is named by an absolute or a relative path and may *)
(* be missing, there but of no use (an unreadable file, a log directory     *)
(* that is none), or usable.                                                *)
File == [absolute : BOOLEAN, is : {"missing", "unusable", "usable"}]

Path == {"log_dir", "cfg", "pid", "mod"}

(* A relative path goes through RealPath; when realpath() fails that makes  *)
(* a string of NULL, which ends the program before Init can look whether    *)
(* the result is empty.                                                     *)
Unresolvable(f) == ~f.absolute /\ f.is = "missing"

(* The checks at the end of Init; mkdir() may make a log directory. *)
Acceptable(files) ==
    /\ \A f \in Path : ~Unresolvable(files[f])
    /\ files["log_dir"].is # "unusable"
    /\ \A f \in {"cfg", "mod"} : files[f].is = "usable"

(* The original command line is copied out of argv, and the name is derived *)
(* from cfg_file_, which has not got its value yet.                         *)
OptionAccepts ==
    /\ stage = "options"
    /\ \E files \in [Path -> File], name \in {<<>>, <<Dot>>} :
          /\ Acceptable(files)
          /\ option' = [cmdline |-> Strings(memory, argv),
                        name |-> IF name # <<>> THEN name ELSE GetFileNameWithoutExt(<<>>)]
    /\ stage' = "up"
    /\ UNCHANGED <<titleVars, given>>

OptionAborts ==
    /\ stage = "options"
    /\ \E files \in [Path -> File], f \in Path : Unresolvable(files[f])
    /\ stage' = "aborted"
    /\ UNCHANGED <<titleVars, given, option>>

(* A bad command line, --help, or files that are not Acceptable. *)
OptionRefuses ==
    /\ stage = "options"
    /\ stage' = "refused"
    /\ UNCHANGED <<titleVars, given, option>>

MasterInit ==
    \/ TitleInit \/ TitleInitFails
    \/ VisitArgument \/ ArgumentsVisited \/ MoveString \/ KeepString \/ TitleInitDone
    \/ OptionAccepts \/ OptionAborts \/ OptionRefuses

-----------------------------------------------------------------------------
(* Properties *)

Accepted == stage \in {"up", "running"}

(* What the program was given stays readable, whatever titles of whatever   *)
(* length overwrite it: the environment, at the addresses getenv() looks at,*)
(* and the original command line that RunMaster puts into its title.        *)
GivenStringsKept ==
    /\ Strings(memory, environ) = given.environ
    /\ Accepted => option.cmdline = given.argv

(* A title is a string that ends inside the memory Title::Init has claimed, *)
(* and nothing beyond that memory is ever written to, though strncpy() may  *)
(* fill all of it and writes no Nul then.                                   *)
TitleContained ==
    g_last # None /\ stage \notin {"argv", "environ"} =>
        /\ \E a \in argv[1] .. g_last : memory[a] = Nul
        /\ \A a \in DOMAIN memory : memory[a] = TitleByte => a \in argv[1] .. g_last
        /\ \E a \in DOMAIN memory : memory[a] = Guard

-----------------------------------------------------------------------------
(* The inductive invariant of GivenStringsKept and TitleContained.  In every*)
(* place of Master::Init and later each string is still where its pointer   *)
(* says, out of reach of the titles.                                        *)
InArgv == stage \in {"title", "argv"}
InTitle == stage \in {"title", "argv", "environ"}
InInit == stage \in {"title", "argv", "environ", "options"}

(* Titles may be written from argv[1] up to g_last. *)
Claimed == g_last # None /\ stage \notin {"argv", "environ"}

IsString(mem, q, s) ==
    /\ \A k \in 1 .. Len(s) : s[k] # Nul /\ mem[q + k - 1] = s[k]
    /\ mem[q + Len(s)] = Nul

ArgEnd(n) == argv[n] + Len(given.argv[n])
EnvEnd(n) == environ[n] + Len(given.environ[n])

Shape ==
    /\ given.size \in Nat \ {0}
    /\ given.argv \in Seq(Seq(Int)) /\ given.environ \in Seq(Seq(Int))
    /\ p \in Int /\ p > given.size + 1
    /\ memory \in [-SetLength .. p - 1 -> Int]
    /\ argv \in Seq(Int) /\ argv # <<>> /\ argv[1] = 1
    /\ environ \in Seq(Int) /\ Len(environ) = Len(given.environ)
    /\ g_last \in Int

(* The strings of argv, which the first title destroys. *)
ArgvKept ==
    /\ InInit =>
          /\ Len(argv) = Len(given.argv)
          /\ \A n \in 1 .. Len(argv) :
                /\ IsString(memory, argv[n], given.argv[n])
                /\ 1 <= argv[n] /\ ArgEnd(n) <= given.size
    /\ InArgv =>
          \A n \in 1 .. Len(argv) - 1 : argv[n + 1] = ArgEnd(n) + 1
    /\ Accepted => option.cmdline = given.argv

(* Where the strings begin that no title may reach. *)
FirstKept ==
    IF InArgv THEN ArgEnd(Len(argv)) + 1
    ELSE IF InTitle THEN g_last
    ELSE IF g_last = None THEN 1 ELSE g_last + 1

InBlock(n) == FirstKept <= environ[n] /\ EnvEnd(n) <= given.size

EnvironKept ==
    \A n \in 1 .. Len(environ) :
        /\ IsString(memory, environ[n], given.environ[n])
        /\ \/ -SetLength <= environ[n] /\ EnvEnd(n) <= 0
           \/ InBlock(n)
           \/ environ[n] > given.size + 1 /\ EnvEnd(n) < p

(* The strings of the environment that are still in the block lie there in  *)
(* the order of their entries.                                              *)
EnvironOrdered ==
    InTitle =>
        \A k, n \in 1 .. Len(environ) :
            k < n /\ InBlock(k) /\ InBlock(n) => EnvEnd(k) < environ[n]

Last ==
    /\ stage = "title" => g_last = None /\ visited = 0
    /\ stage = "argv" =>
          /\ visited \in 0 .. Len(argv)
          /\ g_last = IF visited = 0 THEN 1 ELSE ArgEnd(visited) + 1
    /\ stage = "environ" =>
          /\ visited \in 0 .. Len(environ)
          /\ g_last \in 2 .. given.size + 1
          /\ memory[g_last - 1] = Nul
    /\ Claimed => g_last \in 1 .. given.size /\ memory[g_last] = Nul

Untouched ==
    /\ \A a \in DOMAIN memory :
          memory[a] = TitleByte => Claimed /\ a \in 1 .. g_last
    /\ memory[given.size + 1] = Guard

TitleInv ==
    Shape /\ ArgvKept /\ EnvironKept /\ EnvironOrdered /\ Last /\ Untouched

=============================================================================
