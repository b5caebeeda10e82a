------------------------------ MODULE FileName ------------------------------
(***************************************************************************)
(* FileUtil::GetFileNameWithoutExt (mpic/internal/file_util.cc) on the     *)
(* strings and the size_t it is written with: positions count from 0,      *)
(* find_last_of() says npos when there is no such character, and the       *)
(* subtraction of two positions wraps around.                              *)
(***************************************************************************)
EXTENDS Integers, Sequences

CONSTANTS
    Char,       \* characters
    Slash, Dot, \* '/' and '.'
    NPos        \* std::string::npos, the largest size_t

ASSUME CharAssumption == {Slash, Dot} \subseteq Char /\ Slash # Dot
ASSUME NPosAssumption == NPos \in Nat

(* a - b in size_t, for a and b in 0 .. NPos *)
Minus(a, b) == IF a >= b THEN a - b ELSE a - b + NPos + 1

(* path.find_last_of(c) *)
FindLastOf(path, c) ==
    IF \E i \in 1 .. Len(path) : path[i] = c
      THEN (CHOOSE i \in 1 .. Len(path) :
                path[i] = c /\ \A j \in i + 1 .. Len(path) : path[j] # c) - 1
      ELSE NPos

(* path.substr(pos, count) *)
Substr(path, pos, count) ==
    SubSeq(path, pos + 1, IF count > Len(path) - pos THEN Len(path) ELSE pos + count)

GetFileNameWithoutExt(path) ==
    LET slash == FindLastOf(path, Slash)
        iStart == IF slash = NPos THEN 0 ELSE slash + 1
    IN Substr(path, iStart, Minus(FindLastOf(path, Dot), iStart))

=============================================================================
