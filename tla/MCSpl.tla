-------------------------------- MODULE MCSpl --------------------------------
\* Folders and files of the same names at every depth, so that only the whole
\* path tells them apart: \A, \M\A, \M\M\A, \M\B.
EXTENDS Spl

Thing(parent, fmt, name) == [parent |-> parent, fmt |-> fmt, name |-> name, data |-> << >>]
\* The second character has a low byte of 0.
Letters == << << 65 >>, << 66, 256, 256 >>, << 77 >> >>
On(a, b, m) == << Thing(0, "folder", m), Thing(1, "folder", m), Thing(0, "file", a), Thing(1, "file", a),
                  Thing(2, "file", a), Thing(1, "file", b) >>

Most(c, f) == [calls |-> c, faults |-> f]
Scene(objects, version, calls, faults) ==
  [objects |-> objects, version |-> version, parent |-> 1, names |-> {<< >>, << 80 >>, << 81 >>},
   tracks |-> {<< >>, << 3, 4 >>, << 4, 3 >>, << 5, 6, 5 >>}, max |-> Most(calls, faults)]
MCScenarios == {Scene(On(Letters[1], Letters[2], m), v, 3, 1) : m \in {Letters[3], << 256 >>}, v \in {1, 2}}
=============================================================================
