--------------------------- MODULE MCPriceStream ---------------------------
(* An instance of PriceStream for TLC.                                     *)
EXTENDS PriceStream
=============================================================================
