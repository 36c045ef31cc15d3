------------------------------ MODULE MCListing ------------------------------
(* Keys for the listings: "/" < "a" are numbered 2, 3. *)
EXTENDS Listing

\* "a", "a/", "a/a", "aa"
MCKeys == {<<3>>, <<3, 2>>, <<3, 2, 3>>, <<3, 3>>}
\* none, "a", "a/"
MCPrefixes == {<<>>, <<3>>, <<3, 2>>}
=============================================================================
