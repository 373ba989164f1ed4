------------------------------ MODULE MCPosts -------------------------------
(***************************************************************************)
(* An instance of Posts for TLC: two drafts and two calls, four posts of    *)
(* the feed, archives of every kind, and words of two bytes.                *)
(***************************************************************************)
EXTENDS Posts, TLC

CONSTANTS m1, m2, c1, c2

Symmetry == Permutations({c1, c2}) \cup Permutations({m1, m2})

\* Archives with one and with two index files, with a content.json of every kind, and
\* with nothing that can be read.
NoFile == "none"
Archive(names, json) == [names |-> names, json |-> json]
NotJSON == [valid |-> FALSE, index |-> NoFile, text |-> NoFile, nonce |-> 0]
JSON(index, text) == [valid |-> TRUE, index |-> index, text |-> text, nonce |-> 0]
MCForeignBundles ==
  { Archive({"index.md", "index.txt"}, NotJSON), Archive({"index.png", "other"}, NotJSON),
    Archive({"other"}, NotJSON), Archive({"content.json", "index.md"}, NotJSON),
    Archive({"content.json", "index.md"}, JSON("index.md", NoFile)),
    Archive({"content.json", "index.txt"}, JSON(NoFile, "t1")) }

\* Byte strings: 0 is Nul and 9 Other of Contract.
MCHashes == { <<2, 0>>, <<2, 3>>, <<0, 0>>, <<9, 9>> }
MCReplies == MCHashes \cup { <<>>, <<2>> }
MCServiceIds == { <<4>>, <<4, 5>> }
MCForeignWords == { <<4, 0>>, <<0, 4>>, <<4, 9>> }
=============================================================================
