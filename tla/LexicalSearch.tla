--------------------------- MODULE LexicalSearch ---------------------------
(* The two searches over SQLite alone: file names (retrieval/metadata.py)   *)
(* and full text (indexing/keyword.py). Words are abstract; how a word      *)
(* relates to a file name is a constant, and so is the tokenizer.           *)
EXTENDS Integers, Sequences, FiniteSets, SequencesExt, FiniteSetsExt, Ordering

CONSTANTS TokensOf,       \* term -> its words, possibly none
          NameTier,       \* word -> file -> 1 exact, 2 stem, 3 prefix, 4 category, 5 inside the
                          \* name, 6 inside the path, 7 and 8 fuzzy, NoTier no match
          Stopwords, MetadataOnlyExtensions,
          SqlFoldedCourses \* courses whose name LOWER() folds as casefold() does
NoTier == 9

\* SQLite compares LOWER(name) with casefolded text, and drops what differs.
KnownCourses(courses) == SelectSeq(courses, LAMBDA c : c \in SqlFoldedCourses)

MetadataTerms(words, courseWords) == Range(words) \ (Stopwords \cup courseWords)

\* Present files of the courses, of a wanted category or an extension asked for by name.
FileInScope(f, courses, categories, extensions) ==
  /\ f.status # "missing"
  /\ f.course \in courses
  /\ \/ categories # {} /\ (f.category \in categories \/ f.extension \in extensions)
     \/ /\ categories = {}
        /\ extensions \cap MetadataOnlyExtensions # {}
        /\ f.extension \in extensions

\* The first tier that matches; a named extension counts as a category.
FileTier(f, terms, extensions) ==
  Min({NoTier} \cup {NameTier[t][f.id] : t \in terms}
               \cup (IF f.extension \in extensions THEN {4} ELSE {}))

\* Ranked by tier, then by path (a fuzzy tier's score is part of the path order).
MetadataHits(files, words, courses, courseWords, categories, extensions, limit) ==
  LET terms  == MetadataTerms(words, courseWords)
      hit(f) == /\ FileInScope(f, Range(KnownCourses(courses)), categories, extensions)
                /\ FileTier(f, terms, extensions) < NoTier
      tier(f) == FileTier(f, terms, extensions)
      ahead(f, g) == \/ tier(f) < tier(g)
                     \/ (tier(f) = tier(g) /\ f.path_order < g.path_order)
      ranked == InOrder({f \in files : hit(f)}, ahead)
  IN  IF terms = {} /\ extensions = {} THEN <<>>
      ELSE SubSeq(ranked, 1, Min({limit, Len(ranked)}))

\* Every word of every term, each once: the query is their disjunction.
KeywordTokens(terms) ==
  LET words == FlattenSeq([i \in DOMAIN terms |-> TokensOf[terms[i]]])
  IN  FoldLeft(LAMBDA acc, w : IF w \in Range(acc) THEN acc ELSE Append(acc, w), <<>>, words)

\* The chunks a keyword search may list: eligible, in scope, with one of the words.
KeywordScope(chunks, tokens, courses, types) ==
  {c \in chunks : /\ c.type \in types
                  /\ c.course \in Range(KnownCourses(courses))
                  /\ c.words \cap Range(tokens) # {}}
=============================================================================
