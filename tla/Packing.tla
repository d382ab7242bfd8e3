------------------------------ MODULE Packing ------------------------------
(***************************************************************************)
(* Packing a whole tree (docker/pkg/archive/archive.go): the Walk of       *)
(* TarWithOptions with its includes, exclusion patterns and rebase names.  *)
(***************************************************************************)
EXTENDS Archive

P == INSTANCE Patterns

(* The path that the Walk of TarWithOptions gives the pattern matcher and  *)
(* the archive: "./a" when the directory itself is archived as ".".        *)
RelFilePath(rel, include, opts) ==
  IF opts.sourceDir /\ include = Root THEN <<Dot>> \o rel ELSE rel

(* Whether it skips a path, and all that is in a directory too.  Root as   *)
(* an include is ".".                                                      *)
Skipped(rel, include, pm, opts) ==
  include # rel /\ P!PmMatches(pm, Flat(RelFilePath(rel, include, opts)))
\* A bug Excepted does not have: no exception keeps a directory.
NeverExcepted(path, pm) == FALSE
Excepted(path, pm) ==
  \E i \in 1 .. Len(pm) : /\ pm[i].exclusion
                          /\ IsPrefix(Flat(path) \o <<"/">>, pm[i].pattern \o <<"/">>)
SkipDir(t, src, rel, include, pm, opts) ==
  /\ IsDir(t, src \o rel) /\ Skipped(rel, include, pm, opts)
  /\ ~(P!Exclusions(pm) /\ Excepted(RelFilePath(rel, include, opts), pm))

(* The files for which the Walk calls addTarFile.  Those in a directory of *)
(* mode 0, which cannot be read, are not found: the error is logged.       *)
Walked(t, src, include, pm, opts) ==
  {rel \in {SubSeq(q, Len(src) + 1, Len(q)) : q \in {r \in DOMAIN t : IsPrefix(src \o include, r)}} :
     /\ rel = Root => opts.sourceDir
     /\ \A k \in 0 .. Len(rel) - 1 : t[src \o SubSeq(rel, 1, k)].mode # 0
     /\ ~Skipped(rel, include, pm, opts)
     /\ \A k \in Len(include) .. Len(rel) - 1 :
          (k > 0 \/ opts.sourceDir) => ~SkipDir(t, src, SubSeq(rel, 1, k), include, pm, opts)}

(* The name in the archive: the include is replaced by its rebase name     *)
(* ("" and "/" are Root).                                                  *)
ArchiveName(rel, include, opts) ==
  LET dotted == RelFilePath(rel, include, opts)
      prefix == IF include = Root THEN <<Dot>> ELSE include
  IN  IF include \in DOMAIN opts.rebase /\ opts.rebase[include] # <<>> /\ IsPrefix(prefix, dotted)
      THEN opts.rebase[include] \o SubSeq(dotted, Len(prefix) + 1, Len(dotted))
      ELSE dotted

TarWithOptions(t, srcPath, opts) ==
  LET whole    == IsDir(t, srcPath)
      src      == IF whole THEN srcPath ELSE Dir(srcPath)
      includes == IF ~whole THEN <<<<Base(srcPath)>>>>
                  ELSE IF opts.includes = <<>> THEN <<Root>> ELSE opts.includes
      pm       == P!NewPatternMatcher(opts.patterns)
      files(k) == Walked(t, src, includes[k], pm, opts) \
                    UNION {Walked(t, src, includes[j], pm, opts) : j \in 1 .. k - 1}
      pack(ta, k) ==
        FoldLeft(LAMBDA a, rel : addTarFile(a, t, src \o rel, ArchiveName(rel, includes[k], opts), opts),
                 ta, Sorted(opts.order, files(k)))
  IN  IF srcPath \notin DOMAIN t THEN NewTarAppender
      ELSE FoldLeft(pack, NewTarAppender, [k \in 1 .. Len(includes) |-> k])
=============================================================================
