------------------------------ MODULE Patterns ------------------------------
(***************************************************************************)
(* The exclusion patterns of a build context and of TarWithOptions         *)
(* (docker/pkg/fileutils/fileutils.go).  A pattern and a path are          *)
(* sequences of characters.  A character that regexp reads as an operator  *)
(* and compile leaves alone ("[", "(", "+", ...) is not in the inputs, so  *)
(* that neither Match nor regexp finds an error in a pattern; and patterns *)
(* have been trimmed and cleaned.                                          *)
(***************************************************************************)
EXTENDS Names

(* The regexp that compile writes, as the sequence of its factors.         *)
RECURSIVE compile(_)
compile(p) ==
  IF p = <<>> THEN <<>>
  ELSE IF p[1] = "*" THEN
    IF Len(p) > 1 /\ p[2] = "*" THEN
      LET after == SubSeq(p, 3, Len(p))
          rest  == IF after # <<>> /\ after[1] = Slash THEN Tail(after) ELSE after
      IN  IF rest = <<>> THEN << <<"any">> >> ELSE << <<"dirs">> >> \o compile(rest)
    ELSE << <<"name">> >> \o compile(Tail(p))
  ELSE IF p[1] = "?" THEN << <<"one">> >> \o compile(Tail(p))
  ELSE IF p[1] = "\\" /\ Len(p) > 1 THEN << <<"char", p[2]>> >> \o compile(SubSeq(p, 3, Len(p)))
  ELSE << <<"char", p[1]>> >> \o compile(Tail(p))

(* regexp.MatchString of the factors: .*, (.*\/)?, [^/]*, [^/], a character. *)
RECURSIVE MatchString(_, _)
MatchString(re, s) ==
  IF re = <<>> THEN s = <<>>
  ELSE LET rest(k) == MatchString(Tail(re), SubSeq(s, k + 1, Len(s)))
       IN  CASE Head(re)[1] = "any"  -> \E k \in 0 .. Len(s) : rest(k)
             [] Head(re)[1] = "dirs" -> \E k \in 0 .. Len(s) : (k = 0 \/ s[k] = Slash) /\ rest(k)
             [] Head(re)[1] = "name" ->
                  \E k \in 0 .. Len(s) : (\A i \in 1 .. k : s[i] # Slash) /\ rest(k)
             [] Head(re)[1] = "one"  -> s # <<>> /\ s[1] # Slash /\ rest(1)
             [] OTHER                -> s # <<>> /\ s[1] = Head(re)[2] /\ rest(1)

(* NewPatternMatcher: blank patterns go.  The inputs have no "!" alone,    *)
(* which is an error.                                                      *)
Pattern(p) ==
  LET exclusion == p[1] = "!"
      cleaned   == IF exclusion THEN Tail(p) ELSE p
  IN  [pattern |-> cleaned, dirs |-> Len(Split(cleaned)), exclusion |-> exclusion]
NewPatternMatcher(patterns) ==
  [i \in 1 .. Len(SelectSeq(patterns, LAMBDA p : p # <<>>)) |->
     Pattern(SelectSeq(patterns, LAMBDA p : p # <<>>)[i])]
Exclusions(pm) == \E i \in 1 .. Len(pm) : pm[i].exclusion

match(pat, path) == MatchString(compile(pat.pattern), path)

(* PatternMatcher.Matches: the last pattern that matches the file, or the  *)
(* one of its directories that is as deep as the pattern, decides.         *)
MatchesPattern(pat, file) ==
  LET parents == Front(Split(file)) IN
  \/ match(pat, file)
  \/ /\ parents # <<>> /\ pat.dirs <= Len(parents)
     /\ match(pat, Join(SubSeq(parents, 1, pat.dirs)))
PmMatches(pm, file) ==
  FoldLeft(LAMBDA matched, pat : IF MatchesPattern(pat, file) THEN ~pat.exclusion ELSE matched,
           FALSE, pm)

(* The function Matches; the path "." is <<>> here.                        *)
Matches(file, patterns) == file # <<>> /\ PmMatches(NewPatternMatcher(patterns), file)

---------------------------------------------------------------------------
(* What patterns mean, stated without regexps: the components of the path  *)
(* are matched one by one, "**" takes any number of them, "*" any text.    *)

RECURSIVE NameGlob(_, _)
NameGlob(g, s) ==
  IF g = <<>> THEN s = <<>>
  ELSE CASE Head(g) = "*" -> \E k \in 0 .. Len(s) : NameGlob(Tail(g), SubSeq(s, k + 1, Len(s)))
         [] Head(g) = "?" -> s # <<>> /\ NameGlob(Tail(g), Tail(s))
         [] OTHER         -> s # <<>> /\ Head(s) = Head(g) /\ NameGlob(Tail(g), Tail(s))

RECURSIVE PathGlob(_, _)
PathGlob(globs, names) ==
  IF globs = <<>> THEN names = <<>>
  ELSE IF Head(globs) = <<"*", "*">>
       THEN IF Len(globs) = 1 THEN names # <<>>
            ELSE \E k \in 0 .. Len(names) : PathGlob(Tail(globs), SubSeq(names, k + 1, Len(names)))
       ELSE names # <<>> /\ NameGlob(Head(globs), Head(names)) /\ PathGlob(Tail(globs), Tail(names))

Glob(p, file) == PathGlob(Split(p), Split(file))

(* The last pattern that matches the file or a directory around it decides. *)
Ancestors(file) == {Join(SubSeq(Split(file), 1, k)) : k \in 1 .. Len(Split(file))}
Excluded(file, patterns) ==
  LET hits == {i \in 1 .. Len(patterns) :
                 LET g == IF patterns[i][1] = "!" THEN Tail(patterns[i]) ELSE patterns[i]
                 IN  \E f \in Ancestors(file) : Glob(g, f)}
  IN  \E i \in hits : (\A j \in hits : j <= i) /\ patterns[i][1] # "!"
=============================================================================
