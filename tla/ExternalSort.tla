----------------------------- MODULE ExternalSort -----------------------------
(***************************************************************************)
(* 1.sort/bigfilesort.cpp: a file of numbers, one per line, is split into  *)
(* sorted chunks that fit into memory, each written to a temporary file    *)
(* 0.tmp, 1.tmp, ..., and the temporary files are merged.                  *)
(*                                                                         *)
(* A double is an integer here: only the order of the numbers matters.     *)
(* Printed is what operator<< leaves of a number (six significant digits): *)
(* it keeps the order, and what is read back from a temporary file is      *)
(* printed the same way again.  A run may be killed at any moment: the     *)
(* temporary files stay, and the program is started again, with another    *)
(* input, in the same directory.                                           *)
(***************************************************************************)
EXTENDS Integers, Sequences, FiniteSets, Functions

CONSTANTS Numbers,     \* the numbers a line may hold
          Inputs,      \* the input files: sequences of lines
          Blank,       \* an empty line
          Garbage,     \* a line that is not a number, which reads as 0
          MaxSize,     \* max_size: numbers the chunk reserves memory for
          MaxRuns,     \* bound: how often the program is started
          Printed(_),  \* a number as text, read back
          OpenFails    \* whether opening a file may fail

ASSUME SortAssumption ==
    /\ MaxSize \in Nat \ {0} /\ MaxRuns \in Nat \ {0}
    /\ OpenFails \in BOOLEAN
    /\ 0 \in Numbers /\ Numbers \subseteq Int
    /\ Blank \notin Numbers \cup {Garbage} /\ Garbage \notin Numbers
    /\ Inputs \subseteq Seq(Numbers \cup {Blank, Garbage})

ASSUME PrintedAssumption ==
    /\ \A a \in Numbers : Printed(a) \in Numbers /\ Printed(Printed(a)) = Printed(a)
    /\ \A a, b \in Numbers : a <= b => Printed(a) <= Printed(b)

VARIABLES
    phase,   \* where main() is, or how it ended
    input,   \* the lines of the input file
    left,    \* the lines getline has not delivered
    stream,  \* the state of the input stream, as while(stream) tests it
    data,    \* the chunk in memory
    count,   \* chunks written
    tmp,     \* the temporary files of the directory, by number
    files,   \* what each sorted_file has not given yet
    out,     \* the output file
    runs

vars == <<phase, input, left, stream, data, count, tmp, files, out, runs>>

Running == phase \in {"split", "open", "merge"}

Init ==
    /\ input \in Inputs /\ left = input
    /\ stream = TRUE
    /\ data = <<>> /\ count = 0 /\ files = <<>>
    /\ phase = "split"
    /\ tmp = [k \in {} |-> <<>>] /\ out = <<>>
    /\ runs = 1
-----------------------------------------------------------------------------
\* str >> value: text that is not a number leaves 0.
Parsed(line) == IF line = Garbage THEN 0 ELSE line

Ascending(s) == \A i, j \in DOMAIN s : i < j => s[i] <= s[j]

\* std::sort promises no more: the permutations that put s in order.
Sorts(s) ==
    {p \in Bijection(DOMAIN s, DOMAIN s) : Ascending([i \in DOMAIN s |-> s[p[i]]])}

\* The lines of the temporary file.
Lines(s, p) == [i \in DOMAIN s |-> Printed(s[p[i]])]

\* The directory once the chunk's temporary file is written, over an older one.
Written(file) ==
    [k \in DOMAIN tmp \cup {count} |-> IF k = count THEN file ELSE tmp[k]]

\* The inner loop of split_file goes on.
ChunkHasRoom == Len(data) <= MaxSize /\ stream

\* MUTANT: a stream at its end is read again.
ReadLineForEver ==
    /\ phase = "split" /\ ChunkHasRoom
    /\ IF left = <<>>
       THEN UNCHANGED <<stream, left, data>>
       ELSE /\ left' = Tail(left)
            /\ data' = IF Head(left) = Blank THEN data
                       ELSE Append(data, Parsed(Head(left)))
            /\ UNCHANGED stream
    /\ UNCHANGED <<phase, input, count, tmp, files, out, runs>>

\* One getline: at the end of the file it fails, and so does the stream.
ReadLine ==
    /\ phase = "split" /\ ChunkHasRoom
    /\ IF left = <<>>
       THEN /\ stream' = FALSE
            /\ UNCHANGED <<left, data>>
       ELSE /\ left' = Tail(left)
            /\ data' = IF Head(left) = Blank THEN data
                       ELSE Append(data, Parsed(Head(left)))
            /\ UNCHANGED stream
    /\ UNCHANGED <<phase, input, count, tmp, files, out, runs>>

\* MUTANT: a last chunk that is not full is forgotten.
WriteChunkFull ==
    /\ phase = "split" /\ ~ChunkHasRoom /\ data # <<>>
    /\ IF stream
       THEN /\ \E p \in Sorts(data) : tmp' = Written(Lines(data, p))
            /\ count' = count + 1
       ELSE UNCHANGED <<tmp, count>>
    /\ data' = <<>>
    /\ UNCHANGED <<phase, input, left, stream, files, out, runs>>

\* The chunk is sorted and written over the temporary file of its number.
WriteChunk ==
    /\ phase = "split" /\ ~ChunkHasRoom /\ data # <<>>
    /\ \E p \in Sorts(data) : tmp' = Written(Lines(data, p))
    /\ count' = count + 1
    /\ data' = <<>>
    /\ UNCHANGED <<phase, input, left, stream, files, out, runs>>

\* split_file returns: the stream has failed and no chunk is left to write.
EndSplit ==
    /\ phase = "split" /\ ~stream /\ data = <<>>
    /\ phase' = "open"
    /\ UNCHANGED <<input, left, stream, data, count, tmp, files, out, runs>>

\* MUTANT: every temporary file of the directory is merged.
OpenFilesAll ==
    /\ phase = "open"
    /\ files' = [i \in 1 .. Cardinality(DOMAIN tmp) |-> tmp[i - 1]]
    /\ out' = <<>>
    /\ phase' = "merge"
    /\ UNCHANGED <<input, left, stream, data, count, tmp, runs>>

\* The temporary files of this run are opened, and the output is truncated.
OpenFiles ==
    /\ phase = "open"
    /\ files' = [i \in 1 .. count |-> tmp[i - 1]]
    /\ out' = <<>>
    /\ phase' = "merge"
    /\ UNCHANGED <<input, left, stream, data, count, tmp, runs>>

\* main() returns 1 and leaves the temporary files.
Fail ==
    /\ OpenFails
    /\ \/ phase = "split" /\ ~ChunkHasRoom /\ data # <<>>
       \/ phase = "open"
    /\ phase' = "failed"
    /\ UNCHANGED <<input, left, stream, data, count, tmp, files, out, runs>>

\* sorted_splitted_data: the files that have data, and the first of those with
\* the smallest number.
has_data == {i \in DOMAIN files : files[i] # <<>>}

IsSmallest(i) ==
    \A j \in has_data :
        \/ Head(files[i]) < Head(files[j])
        \/ Head(files[i]) = Head(files[j]) /\ i <= j

\* out << data.min(): the file that gave the number moves on.
Merge ==
    /\ phase = "merge"
    /\ \E i \in has_data :
        /\ IsSmallest(i)
        /\ out' = Append(out, Printed(Head(files[i])))
        /\ files' = [files EXCEPT ![i] = Tail(@)]
    /\ UNCHANGED <<phase, input, left, stream, data, count, tmp, runs>>

\* The temporary files of this run are removed; those of an earlier, longer
\* run stay, and count for nothing.
Finish ==
    /\ phase = "merge" /\ has_data = {}
    /\ phase' = "done"
    /\ tmp' = [k \in DOMAIN tmp \ (0 .. count - 1) |-> tmp[k]]
    /\ UNCHANGED <<input, left, stream, data, count, files, out, runs>>

Kill ==
    /\ Running
    /\ phase' = "killed"
    /\ UNCHANGED <<input, left, stream, data, count, tmp, files, out, runs>>

\* The program is started again, on any input.
Restart ==
    /\ ~Running /\ runs < MaxRuns
    /\ \E lines \in Inputs : input' = lines /\ left' = lines
    /\ stream' = TRUE
    /\ data' = <<>> /\ count' = 0 /\ files' = <<>>
    /\ phase' = "split"
    /\ runs' = runs + 1
    /\ UNCHANGED <<tmp, out>>

Work == ReadLine \/ WriteChunk \/ EndSplit \/ OpenFiles \/ Merge \/ Finish

Next == Work \/ Fail \/ Kill \/ Restart

\* The process runs until something ends it.
Spec == Init /\ [][Next]_vars /\ WF_vars(Work)
-----------------------------------------------------------------------------
\* The chunk holds one number more than max_size, never two.
TypeOK ==
    /\ phase \in {"split", "open", "merge", "done", "failed", "killed"}
    /\ input \in Inputs
    /\ left \in Seq(Numbers \cup {Blank, Garbage}) /\ Len(left) <= Len(input)
    /\ \A j \in DOMAIN left : left[j] = input[Len(input) - Len(left) + j]
    /\ stream \in BOOLEAN
    /\ data \in Seq(Numbers) /\ Len(data) <= MaxSize + 1
    /\ count \in Nat
    /\ \A k \in DOMAIN tmp : k \in Nat /\ tmp[k] \in Seq(Numbers)
    /\ files \in Seq(Seq(Numbers))
    /\ out \in Seq(Numbers)
    /\ runs \in 1 .. MaxRuns

\* The lines of the input that count, and what is to become of one.
Numbered == {i \in DOMAIN input : input[i] # Blank}

Value(i) == Printed(Parsed(input[i]))

\* At every moment the merge has written the first numbers of the sorted input:
\* in order, each from a line of its own, none greater than one still to come.
\* Chunks, the rounding between the two phases, and the temporary files an
\* earlier run has left behind make no difference.
OutputIsSorted ==
    phase \in {"merge", "done"} =>
        /\ Ascending(out)
        /\ \E line \in Injection(DOMAIN out, Numbered) :
              /\ \A k \in DOMAIN out : out[k] = Value(line[k])
              /\ \A k \in DOMAIN out, i \in Numbered \ Range(line) : out[k] <= Value(i)

\* A run that ends well has written all of it: no line is lost or written twice
\* between two chunks, at the end of the file, or on the way through a temporary
\* file.
OutputIsComplete ==
    phase = "done" =>
        \E line \in Bijection(DOMAIN out, Numbered) :
            \A k \in DOMAIN out : out[k] = Value(line[k])

\* Every run comes to an end.
RunEnds == []<>~Running
=============================================================================
