------------------------------- MODULE SymbolicFiles -------------------------------
(***************************************************************************)
(* open() in tested code returns a SymbolicIO (overrides/util.py): the     *)
(* file's contents are one more symbolic input, of type string, and read   *)
(* and readline take from the front of it.  A formula stands for its value *)
(* on every contents the file may have.                                    *)
(***************************************************************************)
EXTENDS SymbolicSlices

CONSTANTS
  Newline,    \* "\n"
  Contents,   \* the contents the file may have
  MaxReads    \* bound on reads and opens

ASSUME ContentsAssumption ==
  Newline \in Char /\ <<>> \in Contents /\ \A c \in Contents : c \in Seq(Char)

VARIABLES
  known,      \* file_concs of the run: the contents, or none yet
  handle,     \* contents of the open SymbolicIO: concrete half and formula
  got,        \* what the last call returned, likewise
  readSoFar,  \* history: what this handle returned so far, per contents
  filePath,   \* contents on the path
  reads       \* calls made, for the bound

fileVars == <<known, handle, got, readSoFar, filePath, reads>>

NoFile == <<"no file">>
Both(v, f) == [v |-> v, formula |-> f]
AllOfIt == [c \in Contents |-> c]
NothingYet == [c \in Contents |-> <<>>]

\* engine.file_concs.get(..., "")
Known == IF known = NoFile THEN <<>> ELSE known

FileIdle ==
  /\ known = NoFile /\ handle = Both(<<>>, NothingYet) /\ got = Both(<<>>, NothingYet)
  /\ readSoFar = NothingYet /\ filePath = Contents /\ reads = MaxReads

FileInit ==
  /\ known \in Contents \cup {NoFile}
  /\ handle = Both(<<>>, NothingYet) /\ got = Both(<<>>, NothingYet)
  /\ readSoFar = NothingYet /\ filePath = Contents /\ reads = 0

\* __init__ and _get_contents: "contents are empty" is recorded as false, whatever
\* they are.  A second open starts from the front again; writes were dropped.
Open ==
  /\ reads < MaxReads
  /\ filePath' = {c \in filePath : c # <<>>}
  /\ handle' = Both(Known, AllOfIt)
  /\ got' = Both(<<>>, NothingYet)
  /\ readSoFar' = NothingYet
  /\ reads' = reads + 1
  /\ UNCHANGED known

Opened == filePath # Contents

Returns(value, rest) ==
  /\ reads < MaxReads /\ Opened
  /\ got' = value
  /\ handle' = rest
  /\ readSoFar' = [c \in Contents |-> readSoFar[c] \o value.formula[c]]
  /\ reads' = reads + 1
  /\ UNCHANGED <<known, filePath>>

\* contents[contents.__len__():]
Rest(s) == SubString(s, Len(s), Len(s) - Len(s))

Read ==
  Returns(handle, Both(PySlice(handle.v, Len(handle.v), Len(handle.v)),
                       [c \in Contents |-> Rest(handle.formula[c])]))

\* str.find and IndexOf: from 0, -1 if there is none.
Find(s) == LET places == {k \in DOMAIN s : s[k] = Newline}
           IN  IF places = {} THEN -1 ELSE (CHOOSE k \in places : \A j \in places : k <= j) - 1

\* Mutant: a newline at the very front is taken for none.
EndOfLineAfterFirst(s) == IF Find(s) > 0 THEN Find(s) + 1 ELSE Len(s)

\* sym_index
EndOfLine(s) == IF Find(s) >= 0 THEN Find(s) + 1 ELSE Len(s)

\* conc_index
ConcreteEnd(s) == IF Find(s) >= 0 THEN Find(s) + 1 ELSE Len(s)

ReadLine ==
  LET v == handle.v
      f == handle.formula
  IN  Returns(Both(PySlice(v, 0, ConcreteEnd(v)),
                   [c \in Contents |-> SubString(f[c], 0, EndOfLine(f[c]))]),
              Both(PySlice(v, ConcreteEnd(v), Len(v)),
                   [c \in Contents |-> SubString(f[c], EndOfLine(f[c]), Len(f[c]))]))

FileNext == Open \/ Read \/ ReadLine \/ (reads = MaxReads /\ UNCHANGED fileVars)

FileSpec == FileInit /\ [][FileNext]_fileVars

----------------------------------------------------------------------------------
(* Properties.                                                             *)

EndsALine(s) == s # <<>> /\ \A k \in DOMAIN s : s[k] = Newline <=> k = Len(s)

\* On every contents the file may have, what was read and what is left are the whole
\* file in order, and a line ends at its newline; on the contents of the run, the
\* concrete halves are what the formulas say, and the run is on its own path unless
\* the file is empty.
ReadsAreTheFile ==
  Opened =>
    /\ \A c \in Contents : readSoFar[c] \o handle.formula[c] = c
    /\ \A c \in Contents : readSoFar[c] # <<>> /\ handle.formula[c] # <<>> => EndsALine(got.formula[c])
    /\ handle.v = handle.formula[Known] /\ got.v = got.formula[Known]
    /\ Known # <<>> => Known \in filePath
==================================================================================
