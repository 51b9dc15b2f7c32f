--------------------------- MODULE MCThreadControl ---------------------------
(* Instances of ThreadControl for TLC.                                      *)
EXTENDS ThreadControl
CONSTANTS c1, c2

\* Every query of hardcom returns all the ports.
MCFetch == {Coms}

\* A port is renamed between two queries.
MCFetchEither == {{c} : c \in Coms}

\* The query may fail, or return every port.
MCFetchAnyOrNone == {{}, Coms}
==============================================================================
