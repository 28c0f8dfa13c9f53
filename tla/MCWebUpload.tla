---------------------------- MODULE MCWebUpload ----------------------------
(* Requests for TLC: a boundary of three bytes of two kinds, and every body *)
(* of up to four bytes, with or without a boundary and bytes behind it.     *)
EXTENDS WebUpload

CRLF == <<0, 1, 1>>
AllBodies == LET contents == BoundedSeq({0, 1}, 4)
             IN  contents \union {c \o CRLF : c \in contents}
                          \union {c \o CRLF \o <<1, 0>> : c \in contents}
=============================================================================
