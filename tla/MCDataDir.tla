------------------------------ MODULE MCDataDir ------------------------------
(* Small instances of DataDir for TLC.                                     *)
EXTENDS DataDir

Plain == [DataDir |-> "dir", SocksPort |-> 0, Bridges |-> {}]

\* Ports below, at and above the range of 16 bits, bridge lines that parse
\* and one that does not.
MCAsked == {[Plain EXCEPT !.SocksPort = 9050, !.Bridges = {"good"}],
            [Plain EXCEPT !.SocksPort = -1],
            [Plain EXCEPT !.SocksPort = MaxPort + 2],
            [Plain EXCEPT !.Bridges = {"good", "bad"}],
            [Plain EXCEPT !.DataDir = ""]}
=============================================================================
