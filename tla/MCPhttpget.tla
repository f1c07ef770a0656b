------------------------------ MODULE MCPhttpget ------------------------------
(* Phttpget with the replies that main tells apart: HTTP/1.1 with a length,   *)
(* the same announcing the end of the connection, without a body (with and    *)
(* without that announcement), an error, a body that ends with the            *)
(* connection; HTTP/1.0 with and without keep-alive; a body in several chunks *)
(* from a server that closes and from one that does not.                      *)
EXTENDS Phttpget

R(minor, connection, status, frame) ==
    [minor |-> minor, conn |-> connection, status |-> status, frame |-> frame]

Replies ==
    { R(1, "none", 200, "length"), R(1, "close", 200, "length"), R(1, "none", 204, "length"),
      R(1, "close", 204, "length"), R(1, "none", 404, "length"), R(1, "close", 200, "eof"),
      R(0, "keep-alive", 200, "length"), R(0, "none", 200, "eof"),
      R(0, "keep-alive", 200, "eof"),
      R(1, "none", 200, "chunks"), R(1, "close", 200, "chunks") }
=============================================================================
