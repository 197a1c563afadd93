--------------------------- MODULE MCIcebergRoute ---------------------------
(* A small instance of IcebergRoute: two requests under way, one endpoint, one pair of *)
(* credentials, and queries with and without them.                                     *)
EXTENDS IcebergRoute
CONSTANTS minio, key

SomeQueries ==
    {[endpoint |-> minio, key |-> key, budget |-> FALSE],
     [endpoint |-> None, key |-> None, budget |-> TRUE]}
=============================================================================
