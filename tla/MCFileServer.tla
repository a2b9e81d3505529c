---------------------------- MODULE MCFileServer ----------------------------
EXTENDS FileServer, TLC

Exclusive == [access |-> {"FILE_READ_DATA"}, share |-> {}]
Reader == [access |-> {"FILE_READ_DATA"}, share |-> {"FILE_READ_DATA"}]
MCModes == {Exclusive, Reader}

ServerSymmetry == Permutations(Conns) \cup Permutations(Names)
=============================================================================
