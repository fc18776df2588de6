-------------------------- MODULE TestcaseArchive --------------------------
(***************************************************************************)
(* The parser of testcase archives: the loop over the members of a zip     *)
(* that pairs inputs with outputs under the size budgets and collects      *)
(* findings, and the natural order of the cases.                           *)
(*                                                                         *)
(* A member is [dir, path, ext, key, declared, compressed, readable]: the  *)
(* classes of its path's segments, its lower-cased extension, its stem as  *)
(* the runs that naturalTokens splits it into, its declared and compressed *)
(* sizes, and whether reading it gives the declared bytes (archive/zip     *)
(* fails otherwise).  An archive is [size, zip, sum, members].             *)
(***************************************************************************)
EXTENDS Integers, Sequences, FiniteSets, SequencesExt, TLC

CONSTANTS
    Budgets,        \* [bytes, entry, total, files, ratio]: ArchiveOptions
    ArchiveInputs,  \* bound: the archives the parser is checked on
    None

\* The runs naturalTokens splits a stem into: digits, or anything else.
Tokens == [digit : {TRUE}, zeros : Nat, value : Nat] \cup [digit : {FALSE}, fold : Nat, exact : Nat]

\* An archive as zip.NewReader presents it.
IsArchive(z) ==
    /\ z.size \in Int /\ z.zip \in BOOLEAN
    /\ Len(z.members) \in Nat /\ DOMAIN z.members = 1 .. Len(z.members)
    /\ \A i \in DOMAIN z.members : LET m == z.members[i]
           IN  /\ {m.dir, m.readable} \subseteq BOOLEAN /\ m.key \in Seq(Tokens)
               /\ {m.declared, m.compressed} \subseteq Nat

ASSUME ArchiveAssumption ==
    /\ Budgets \in [bytes : Nat, entry : Nat, total : Nat, files : Nat, ratio : Nat]
    /\ None \notin {"inputs", "outputs", "entry_too_large", "total_size_exceeded",
                   "compression_ratio_exceeded"}
    /\ \A z \in ArchiveInputs : IsArchive(z)

-----------------------------------------------------------------------------
(* Natural order.  A digit run is its leading zeros and its value; another *)
(* run has a rank among the folded texts and one among the exact texts.    *)

\* Equal values differ in their zeros only.  A run of zeros alone is a prefix of
\* a longer one; before another digit one more zero sorts first.
compareDigits(a, b) ==
    \/ a.value < b.value
    \/ a.value = b.value /\ IF a.value = 0 THEN a.zeros < b.zeros ELSE a.zeros > b.zeros

compareTexts(a, b) == a.fold < b.fold \/ (a.fold = b.fold /\ a.exact < b.exact)

\* Digits come before anything else.
compareNaturalTokens(a, b) ==
    IF a.digit # b.digit THEN a.digit
    ELSE IF a.digit THEN compareDigits(a, b) ELSE compareTexts(a, b)

naturalLess(a, b) ==
    \/ \E i \in DOMAIN a \cap DOMAIN b :
          compareNaturalTokens(a[i], b[i]) /\ \A j \in 1 .. i - 1 : a[j] = b[j]
    \/ Len(a) < Len(b) /\ \A j \in DOMAIN a : a[j] = b[j]

\* What sort.Slice leaves: the stems, each once, none behind a greater one.
sortTestcaseKeys(stems) ==
    CHOOSE s \in [1 .. Cardinality(stems) -> stems] :
        \A i, j \in 1 .. Cardinality(stems) : i < j => s[i] # s[j] /\ ~naturalLess(s[j], s[i])

-----------------------------------------------------------------------------
(* One member.                                                             *)

ignoredArchivePath(m) == \E i \in DOMAIN m.path : m.path[i] \in {"dotted", "__MACOSX"}

classifyTestcaseFile(m) ==
    CASE m.ext = "in" -> "inputs" [] m.ext \in {"ans", "out"} -> "outputs" [] OTHER -> None

compressionRatioExceeded(m) ==
    m.declared # 0 /\ (m.compressed = 0 \/ m.declared > m.compressed * Budgets.ratio)

NoEntries == [files |-> 0, declared |-> 0, inputs |-> <<>>, outputs |-> <<>>, codes |-> {}]
Found(st, code) == [st EXCEPT !.codes = @ \cup {code}]

Entered(map, key, i) == [k \in DOMAIN map \cup {key} |-> IF k = key THEN i ELSE map[k]]

\* Mutant: a second entry of a case takes the place of the first.
lastEntryWins(st, kind, key, i) == [st EXCEPT ![kind] = Entered(@, key, i)]

recordArchiveEntry(st, kind, key, i) ==
    IF key \in DOMAIN st[kind] THEN Found(st, "case_duplicate")
    ELSE [st EXCEPT ![kind] = Entered(@, key, i)]

\* The budget a member breaks by what it declares, before it is read.
brokenBudget(st, m) ==
    IF m.declared > Budgets.entry THEN "entry_too_large"
    ELSE IF m.declared > Budgets.total \/ st.declared > Budgets.total - m.declared
         THEN "total_size_exceeded"
    ELSE IF compressionRatioExceeded(m) THEN "compression_ratio_exceeded"
    ELSE None

readArchiveEntry(st, m, kind, i) ==
    IF ~m.readable THEN Found(st, "zip_invalid")
    ELSE IF m.declared = 0 THEN Found(st, "entry_empty")
    ELSE recordArchiveEntry(st, kind, m.key, i)

\* The body of the loop; a directory is skipped and counts for nothing.
parseMember(seen, i, m) ==
    LET st == [seen EXCEPT !.files = @ + 1]
        kind == classifyTestcaseFile(m)
        code == brokenBudget(st, m)
    IN  IF m.dir THEN seen
        ELSE IF st.files > Budgets.files THEN Found(st, "file_count_exceeded")
        ELSE IF ignoredArchivePath(m) THEN Found(st, "file_ignored")
        ELSE IF kind = None THEN Found(st, "file_name_invalid")
        ELSE IF code # None THEN recordArchiveEntry(Found(st, code), kind, m.key, i)
        ELSE readArchiveEntry([st EXCEPT !.declared = @ + m.declared], m, kind, i)

-----------------------------------------------------------------------------
(* The archive.                                                            *)

missingPairs(st) ==
    (IF DOMAIN st.inputs \subseteq DOMAIN st.outputs THEN {} ELSE {"output_missing"})
    \cup (IF DOMAIN st.outputs \subseteq DOMAIN st.inputs THEN {} ELSE {"input_missing"})

\* The loop: what the parser holds before the first member and after each of them.
parseMembers(z) ==
    LET seen[n \in 0 .. Len(z.members)] ==
            IF n = 0 THEN NoEntries ELSE parseMember(seen[n - 1], n, z.members[n])
    IN  seen

Rejected(code) == [cases |-> <<>>, codes |-> {code}]

parseArchive(z, expected) ==
    IF z.size <= 0 THEN Rejected("zip_invalid")
    ELSE IF z.size > Budgets.bytes THEN Rejected("archive_too_large")
    ELSE IF expected # None /\ expected # z.sum THEN Rejected("archive_corrupted")
    ELSE IF ~z.zip THEN Rejected("zip_invalid")
    ELSE LET st == parseMembers(z)[Len(z.members)]
             stems == DOMAIN st.inputs \cap DOMAIN st.outputs
             order == sortTestcaseKeys(stems)
         IN  [cases |-> [n \in DOMAIN order |->
                            [input |-> st.inputs[order[n]], output |-> st.outputs[order[n]]]],
              codes |-> st.codes \cup missingPairs(st)
                        \cup (IF stems = {} THEN {"archive_empty"} ELSE {})]

ValidateArchive(z) == parseArchive(z, None)
VerifyArchive(z, expected) == parseArchive(z, expected)
HasErrorFindings(codes) == codes \ {"file_ignored"} # {}
archiveUnreadable(codes) == codes \cap {"zip_invalid", "archive_corrupted"} # {}

-----------------------------------------------------------------------------
(* What an archive should be.                                              *)

\* The members that count: files that no segment of their path hides.
Considered(z) ==
    {i \in DOMAIN z.members : ~z.members[i].dir /\ ~ignoredArchivePath(z.members[i])}

Of(z, kind, key) ==
    {i \in Considered(z) : z.members[i].key = key /\ classifyTestcaseFile(z.members[i]) = kind}

\* What the members that count among the first n declare together.
DeclaredUpTo(z) ==
    LET total[n \in 0 .. Len(z.members)] ==
            IF n = 0 THEN 0
            ELSE total[n - 1] + (IF n \in Considered(z) THEN z.members[n].declared ELSE 0)
    IN  total

WellPaired(z) ==
    LET M == Considered(z)
    IN  /\ z.zip /\ z.size \in 1 .. Budgets.bytes
        /\ Cardinality({i \in DOMAIN z.members : ~z.members[i].dir}) <= Budgets.files
        /\ M # {}
        /\ \A i \in M : LET m == z.members[i]
                        IN  /\ classifyTestcaseFile(m) # None
                            /\ m.readable /\ m.declared \in 1 .. Budgets.entry
                            /\ ~compressionRatioExceeded(m)
                            /\ Cardinality(Of(z, "inputs", m.key)) = 1
                            /\ Cardinality(Of(z, "outputs", m.key)) = 1
        /\ DeclaredUpTo(z)[Len(z.members)] <= Budgets.total

Accepted(r) == ~HasErrorFindings(r.codes)

PairedInOrder(z, r) ==
    LET Key(i) == z.members[i].key
    IN  /\ 2 * Len(r.cases) = Cardinality(Considered(z))
        /\ \A n \in DOMAIN r.cases :
              /\ r.cases[n].input \in Of(z, "inputs", Key(r.cases[n].output))
              /\ r.cases[n].output \in Of(z, "outputs", Key(r.cases[n].input))
        /\ \A n, k \in DOMAIN r.cases :
              n < k => /\ naturalLess(Key(r.cases[n].input), Key(r.cases[k].input))
                       /\ ~naturalLess(Key(r.cases[k].input), Key(r.cases[n].input))

\* Every half is there and can be read, though some may break a budget.
Complete(z) ==
    \A i \in Considered(z) : LET m == z.members[i]
        IN  /\ m.readable /\ m.declared > 0
            /\ Of(z, "inputs", m.key) # {} /\ Of(z, "outputs", m.key) # {}

ParsedExactly(z) ==
    LET r == ValidateArchive(z)
    IN  /\ Accepted(r) <=> WellPaired(z)
        /\ Accepted(r) => PairedInOrder(z, r)
        /\ Complete(z) /\ "file_count_exceeded" \notin r.codes
             => r.codes \cap {"input_missing", "output_missing"} = {}

\* parseArchive accepts an archive exactly when every member that counts is half
\* of one pair and the budgets hold, in whatever order the members come; every
\* such member is then in one case, and the cases are in natural order.  A member
\* over its budget is not reported as a missing half as well.
Misparsed == {z \in ArchiveInputs : ~ParsedExactly(z)}
============================================================================
