----------------------------- MODULE MCDiagnose -----------------------------
(***************************************************************************)
(* Small instances of Diagnose.                                            *)
(***************************************************************************)
EXTENDS Diagnose

\* Two lines, of which the second counts and shows two rules at once.
Store  == <<{Comment, "chromadb"}, {"similarity_search", "chromadb"}>>
Top    == <<{"top_k", "vectorstore"}>>
Fresh  == <<{"freshness"}>>
Search == <<{"bm25", "cross_encoder"}>>
Cite   == <<{"citation", "source", "line"}, {"citation", "source"}, {"chunk_size"}>>
Binary == <<{NotText, "embed_documents"}>>
Embed  == <<{"embed_documents"}>>
Long   == <<{}, {}, {}, {}>>

MCContents   == {Store, Top, Fresh, Search, Cite, Binary, Embed, Long}

FourPaths  == 1 .. 4
FourthOnly == {4}

Held(nodes)     == \A p \in Paths : held[p] \subseteq nodes
FilesOf(contents) == {File(raw) : raw \in contents}

CalmNodes == FilesOf({Top, Store, Cite, Long}) \cup {Missing, Directory, Link, Unlisted}
RaceNodes == FilesOf({Top, Cite, Long}) \cup {Missing, Directory, Link, Unlisted}
RuleNodes == FilesOf({Store, Top, Fresh, Search, Cite, Binary, Embed}) \cup {Missing}

\* Either nobody writes to four paths, of which one has no name; or that one
\* stays empty and is passed first, and three are raced, twice among what
\* meets the budgets or once among what meets the rules.
Scope ==
  \/ writes = 0 /\ Held(CalmNodes)
  \/ /\ held[4] = {Missing} /\ (4 \in unseen => unseen = Paths)
     /\ Held(RaceNodes) \/ (writes <= 1 /\ Held(RuleNodes))
=============================================================================
