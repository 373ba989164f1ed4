------------------------------- MODULE Bundle -------------------------------
(***************************************************************************)
(* Bundles (sarafan/bundle/bundle.py): how create_post writes one, and what *)
(* Application.process_finished_downloads makes of it at every node and     *)
(* after every start.                                                       *)
(*                                                                          *)
(* A bundle is what is in its archive; so is its magnet, a hash.  The index *)
(* names of ContentBundle are sets of strings, whose order of iteration     *)
(* each Python process draws anew.  extractall() leaves no trace: it        *)
(* compares extensions without their dot to ones with it and unpacks none.  *)
(***************************************************************************)
EXTENDS Naturals, Sequences, FiniteSets

CONSTANTS
  Nodes,
  TextNames, ImageNames,   \* text_index_names and image_index_names
  Texts,                   \* texts that authors write; "" is none
  ForeignBundles,          \* archives made by other programs
  MaxDrafts, MaxStarts     \* bounds: posts created, restarts

None == "none"
\* The answer to a bundle that is not read, and what is not there.
Raised == [type |-> "raised", of |-> None]
Nothing == [type |-> None, of |-> None]

\* content.json with the fields of ContentJSON; `valid` is FALSE for one that is no
\* JSON, has other fields or another version.
ContentJSON(index, text, nonce) == [valid |-> TRUE, index |-> index, text |-> text, nonce |-> nonce]
NoJSON == [valid |-> FALSE, index |-> None, text |-> None, nonce |-> 0]

BundleAssumption ==
  /\ TextNames \cap ImageNames = {} /\ None \notin Texts
  /\ \A b \in ForeignBundles : b.names \subseteq TextNames \cup ImageNames \cup {"content.json", "other"}
  /\ MaxDrafts \in Nat /\ MaxStarts \in Nat

VARIABLES
  order,     \* order[n][x]: the place of an index name in the sets of node n's process
  created,   \* the bundles written by create_post, a sequence
  posts,     \* posts[n][b]: content of the post of bundle b in the database of node n
  processed, \* history: nodes and created bundles that Process was applied to
  starts

vars == <<order, created, posts, processed, starts>>

Bundles == { created[i] : i \in DOMAIN created } \cup ForeignBundles

\* The members of a set of names in the order of their iteration.
Ranks(o, names) == { o[x] : x \in names } = 1 .. Cardinality(names)

Orders ==
  { o \in [TextNames \cup ImageNames -> 1 .. Cardinality(TextNames \cup ImageNames)] :
      Ranks(o, TextNames) /\ Ranks(o, ImageNames) }

-----------------------------------------------------------------------------
\* _render_text returns what it is given: for a file that was read, bytes.
RenderFile(name) == [type |-> "bytes", of |-> name]

\* Mutant: `all` in place of `any`.
RenderContentJSON_All(b) ==
  IF b.json.valid /\ b.json.index = "" /\ b.json.text \notin {None, ""}
  THEN [type |-> "str", of |-> b.json.text] ELSE Raised

\* _render_content_json.  An index file raises "Unsupported index file", whatever
\* its name, and a content.json with neither index nor text is refused.
RenderContentJSON(b) ==
  IF b.json.valid /\ b.json.index \in {None, ""} /\ b.json.text \notin {None, ""}
  THEN [type |-> "str", of |-> b.json.text] ELSE Raised

\* "choose one of the index files in the right order"
FirstOf(o, names) == CHOOSE x \in names : \A y \in names : o[x] <= o[y]

\* render_markdown; it returns None if nothing it knows is in the archive.
RenderMarkdown(o, b) ==
  IF "content.json" \in b.names THEN RenderContentJSON(b)
  ELSE IF b.names \cap TextNames # {} THEN RenderFile(FirstOf(o, b.names \cap TextNames))
  ELSE IF b.names \cap ImageNames # {} THEN [type |-> "str", of |-> FirstOf(o, b.names \cap ImageNames)]
  ELSE Nothing

\* The archive create_post writes for a text; its nonce is a new uuid.
NewBundle(text) ==
  [names |-> {"content.json"}, json |-> ContentJSON(None, text, Len(created) + 1)]

Init ==
  /\ order \in [Nodes -> Orders]
  /\ created = <<>>
  /\ posts = [n \in Nodes |-> [b \in ForeignBundles |-> Nothing]]
  /\ processed = {}
  /\ starts = 0

\* create_post, and all nodes hear of it.
CreatePost(text) ==
  /\ Len(created) < MaxDrafts
  /\ created' = Append(created, NewBundle(text))
  /\ posts' = [n \in Nodes |-> [b \in DOMAIN posts[n] \cup {NewBundle(text)} |->
                 IF b \in DOMAIN posts[n] THEN posts[n][b] ELSE Nothing]]
  /\ UNCHANGED <<order, processed, starts>>

\* Mutant: what does not render is stored as an empty post.
Stored_Anything(old, content) == content

\* Collection.store: a post without content fails the NOT NULL of its column, and
\* nothing is stored if rendering raised.
Stored(old, content) == IF content \in {Raised, Nothing} THEN old ELSE content

\* process_finished_downloads: the post is stored, over one that is there.
Process(n, b) ==
  /\ b \in Bundles
  /\ posts' = [posts EXCEPT ![n][b] = Stored(@, RenderMarkdown(order[n], b))]
  /\ processed' = processed \cup ({<<n, b>>} \ (Nodes \X ForeignBundles))
  /\ UNCHANGED <<order, created, starts>>

\* A node starts again; it will process every bundle once more.
Restart(n) ==
  /\ starts < MaxStarts
  /\ starts' = starts + 1
  /\ \E o \in Orders : order' = [order EXCEPT ![n] = o]
  /\ UNCHANGED <<created, posts, processed>>

Next ==
  \/ \E t \in Texts : CreatePost(t)
  \/ \E n \in Nodes : Restart(n) \/ \E b \in Bundles : Process(n, b)

Spec == Init /\ [][Next]_vars

-----------------------------------------------------------------------------
\* A text written with create_post is what every node shows that has processed the
\* bundle, at any time, and a node that processes one with a text shows it.
CreatedReadable ==
  \A n \in Nodes, i \in DOMAIN created :
    LET b == created[i]
        right == [type |-> "str", of |-> b.json.text]
    IN /\ posts[n][b] \in {Nothing, right}
       /\ <<n, b>> \in processed /\ b.json.text # "" => posts[n][b] = right

\* Bundles with a content.json read the same for all readers, and after any number
\* of restarts; a bundle that cannot be read never takes a post away or makes an
\* empty one.
JSONDecides ==
  /\ \A n, m \in Nodes, b \in Bundles :
       "content.json" \in b.names /\ Nothing \notin {posts[n][b], posts[m][b]} => posts[n][b] = posts[m][b]
  /\ \A n \in Nodes, b \in Bundles : posts[n][b].type \in {"str", "bytes", None}
=============================================================================
