---------------------------- MODULE MCMigrations ----------------------------
(* Two commands at a time over two versions: version 1 exists in two forms  *)
(* with different checksums, version 2 in one that works and one that fails *)
(* at its second statement.  A third version carries transaction control.   *)
EXTENDS Migrations, TLC

Create(p) == [do |-> "create", part |-> p]
Drop(p) == [do |-> "drop", part |-> p]
Bad == [do |-> "bad", part |-> 1]
Start == [do |-> "begin", part |-> 1]
End == [do |-> "end", part |-> 1]

First == [version |-> 1, checksum |-> "a", up |-> <<Create(1)>>, down |-> <<Drop(1)>>]
Edited == [version |-> 1, checksum |-> "b", up |-> <<Create(1), Create(2)>>,
           down |-> <<Drop(2), Drop(1)>>]
Second == [version |-> 2, checksum |-> "a", up |-> <<Create(3), Create(4)>>,
           down |-> <<Drop(4), Drop(3)>>]
Broken == [version |-> 2, checksum |-> "b", up |-> <<Create(3), Bad>>, down |-> <<Drop(3)>>]
Guarded == [version |-> 3, checksum |-> "a", up |-> <<Start>>, down |-> <<Drop(3)>>]

(* Ends the transaction of the batch before a statement that fails. *)
Ending == [version |-> 2, checksum |-> "b", up |-> <<Create(3), End, Bad>>,
           down |-> <<Drop(3)>>]

MCLibrary == {First, Edited, Second, Broken, Guarded}
MCBatches == {<<>>, <<First>>, <<Edited>>, <<Second>>, <<First, Second>>, <<Second, First>>,
              <<First, Broken>>, <<First, Edited>>, <<First, First>>, <<First, Guarded>>}

EndLibrary == {First, Ending}
EndBatches == {<<First, Ending>>}

(* What the theorems suppose of a library, and what the other lacks. *)
ASSUME OrderlyLibrary == Orderly(MCLibrary)
ASSUME EndingLibrary == ~ EndFree(EndLibrary)

Symmetry == Permutations(Migrators)
=============================================================================
