------------------------------- MODULE Tailor -------------------------------
(***************************************************************************)
(* Resume tailoring (resume/tailor.py): which projects, bullets and skills *)
(* a job's resume shows, with a language model's help or without it, and   *)
(* the loop that builds the PDF and trims it to one page (build_pdf of     *)
(* resume/render.py).                                                      *)
(*                                                                         *)
(* A bullet is the numbers it states and the technologies it names; a skill*)
(* item is the set of names inside it, and a skill shown is one such set.  *)
(* A profile has two projects or more, and fewer than _MAX_CANDIDATES.     *)
(* The model and LaTeX are external: a reply is any of Replies, and a build*)
(* fails or reports its pages, one page being possible at any length.  One *)
(* request builds the file of a job at a time; a route and an apply agent  *)
(* that write one resume_path at once are not modelled.                    *)
(***************************************************************************)
EXTENDS Integers, Sequences, FiniteSets, SequencesExt, Selection

CONSTANTS
  Projects,     \* the profile's, strongest first: name, terms, tech, bullets
  Skills,       \* the profile's groups: category, items
  Postings,     \* job descriptions: sets of keywords
  Replies,      \* what the model may answer: sequences of [head, lines]
  Used,         \* names that count as a technology (_NAME_LIKE_RE)
  MaxProjects,  \* resume.max_projects
  MaxBullets,   \* _MAX_BULLETS_PER_PROJECT
  MaxGroups,    \* _MAX_SKILL_GROUPS
  MaxSkills,    \* _MAX_SKILLS_PER_GROUP
  MinProjects,  \* _MIN_PROJECTS_WHEN_FITTING
  MaxRequests   \* bound

ASSUME TailorAssumption ==
  /\ MaxProjects \in Nat \ {0}
  /\ MaxBullets \in Nat \ {0}
  /\ MinProjects \in Nat \ {0}
  /\ MaxSkills \in Nat /\ MaxGroups \in Nat
  /\ MaxRequests \in Nat

IsList(s) == s \in Seq(ToSet(s))

(* Project names are distinct: the code looks projects up by their names.  *)
ASSUME ProfileAssumption ==
  /\ IsList(Projects) /\ IsList(Skills)
  /\ \A i \in DOMAIN Projects :
       /\ IsList(Projects[i].bullets)
       /\ IsFiniteSet(Projects[i].terms) /\ IsFiniteSet(Projects[i].tech)
  /\ \A i, j \in DOMAIN Projects : Projects[i].name = Projects[j].name => i = j
  /\ \A i \in DOMAIN Skills :
       IsFiniteSet(Skills[i].items) /\ \A item \in Skills[i].items : IsFiniteSet(item)
  /\ \A raw \in Replies : IsList(raw) /\ \A k \in DOMAIN raw : IsList(raw[k].lines)

VARIABLES
  phase,      \* "idle", "complete", "build", "fit", "answered"
  jd,         \* the job description of this request
  backend,    \* the configured model can run
  chosen,     \* history: the projects before any trim
  tailored,   \* TailoredResume.projects: [name, bullets]
  skills,     \* TailoredResume.skills: [category, items]
  pages,      \* of the last build: 0 when the engine does not tell
  pdf,        \* the file of this job, if any: the projects it holds
  ready,      \* pdf_ready of the last answer
  requests

tailorVars == <<phase, jd, backend, chosen, tailored, skills, pages, pdf, ready, requests>>

TailorTypeOK ==
  /\ phase \in {"idle", "complete", "build", "fit", "answered"}
  /\ jd \in Postings \cup {{}}
  /\ backend \in BOOLEAN
  /\ pages \in 0..2
  /\ ready \in BOOLEAN
  /\ requests \in 0..MaxRequests

Names == {Projects[i].name : i \in DOMAIN Projects}
Source(name) == Projects[CHOOSE i \in DOMAIN Projects : Projects[i].name = name]

Count(a, b) == IF a < b THEN a ELSE b
First(s, n) == SubSeq(s, 1, Count(n, Len(s)))

(* Which items a cap leaves out is not told apart.                         *)
AtMost(n, S) == CHOOSE T \in SUBSET S : Cardinality(T) = Count(n, Cardinality(S))

FirstOfEach(s) == Picked(s, {k \in DOMAIN s : \A m \in 1..(k - 1) : s[m] # s[k]})

----------------------------------------------------------------------------
(* Facts *)

_numbers(bullets) == UNION {bullets[i].numbers : i \in DOMAIN bullets}

(* Every technology the profile names anywhere.                            *)
known_tech ==
  Used \cap ((UNION {Projects[i].tech : i \in DOMAIN Projects})
             \cup (UNION UNION {Skills[i].items : i \in DOMAIN Skills}))

_project_names(p) ==
  p.tech \cup p.terms \cup UNION {p.bullets[i].names : i \in DOMAIN p.bullets}

----------------------------------------------------------------------------
(* Without the model: ranking by keywords, ties in profile order.          *)
Ranked(score) ==
  InOrder([i \in DOMAIN score |->
             {j \in DOMAIN score : score[j] > score[i] \/ (score[j] = score[i] /\ j < i)}])

select_projects(posting) ==
  LET score == [i \in DOMAIN Projects |->
                  Cardinality((Projects[i].terms \cup Projects[i].tech) \cap posting)]
      order == First(Ranked(score), MaxProjects)
  IN [k \in DOMAIN order |->
        [name |-> Projects[order[k]].name, bullets |-> Projects[order[k]].bullets]]

(* Items that touch the posting; if none does, every group.                *)
select_skills(posting) ==
  LET touching(i) == {item \in Skills[i].items : item \cap posting # {}}
      score       == [i \in DOMAIN Skills |-> Cardinality(touching(i))]
      order       == Ranked(score)
      row(i)      == [category |-> Skills[i].category,
                      items |-> AtMost(MaxSkills, touching(i))]
      hit         == Picked(order, {k \in DOMAIN order : score[order[k]] > 0})
  IN IF hit = <<>> THEN [k \in DOMAIN order |-> Skills[order[k]]]
     ELSE First([k \in DOMAIN hit |-> row(hit[k])], MaxGroups)

----------------------------------------------------------------------------
(* The guards on the model's reply *)

(* As many as the project has, to the cap; the originals for none.         *)
Kept(p, allowed) ==
  LET cap == Count(IF p.bullets = <<>> THEN 1 ELSE Len(p.bullets), MaxBullets)
      kept == First(allowed, cap)
  IN IF kept = <<>> THEN p.bullets ELSE kept

GuardByTechOnly(p, lines) ==
  LET may(b) == b.names \cap (known_tech \ _project_names(p)) = {}
  IN Kept(p, Picked(lines, {i \in DOMAIN lines : may(lines[i])}))

(* No technology of the profile the project does not name, no number its   *)
(* bullets do not state.                                                   *)
_guard_bullets(p, lines) ==
  LET may(b) == /\ b.names \cap (known_tech \ _project_names(p)) = {}
                /\ b.numbers \subseteq _numbers(p.bullets)
  IN Kept(p, Picked(lines, {i \in DOMAIN lines : may(lines[i])}))

(* An item of that category, or one name inside it; lines of one category  *)
(* are one row.  Of two groups with one name the last counts.              *)
_guard_skills(lines) ==
  LET group(c)   == {i \in DOMAIN Skills :
                       /\ Skills[i].category = c
                       /\ \A j \in DOMAIN Skills : j > i => Skills[j].category # c}
      allowed(c) == UNION {Skills[i].items \cup {{n} : n \in UNION Skills[i].items} :
                             i \in group(c)}
      said(c)    == UNION {lines[k].items : k \in {k \in DOMAIN lines : lines[k].category = c}}
      named      == FirstOfEach([k \in DOMAIN lines |-> lines[k].category])
      rows       == Picked(named, {k \in DOMAIN named : allowed(named[k]) \cap said(named[k]) # {}})
  IN First([k \in DOMAIN rows |->
              [category |-> rows[k], items |-> AtMost(MaxSkills, allowed(rows[k]) \cap said(rows[k]))]],
           MaxGroups)

(* _parse_rewrite: the lines under each header; a header that comes twice  *)
(* goes on with its first place.                                           *)
_parse_rewrite(raw) ==
  LET heads    == FirstOfEach([k \in DOMAIN raw |-> raw[k].head])
      lines(h) == FlattenSeq([k \in DOMAIN raw |->
                                IF raw[k].head = h THEN raw[k].lines ELSE <<>>])
  IN [k \in DOMAIN heads |-> [head |-> heads[k], lines |-> lines(heads[k])]]

(* tailor_resume: only headers that name a project of the profile count,   *)
(* and without one the keywords decide.                                    *)
tailor_resume(raw) ==
  LET sections == _parse_rewrite(raw)
      said == First(Picked(sections, {k \in DOMAIN sections : sections[k].head \in Names}),
                    MaxProjects)
      rows == FlattenSeq([k \in DOMAIN raw |->
                            IF raw[k].head = "SKILLS" THEN raw[k].lines ELSE <<>>])
      picked == _guard_skills(rows)
  IN IF said = <<>>
     THEN [projects |-> select_projects(jd), skills |-> select_skills(jd)]
     ELSE [projects |->
             [k \in DOMAIN said |->
                [name |-> said[k].head,
                 bullets |-> _guard_bullets(Source(said[k].head), said[k].lines)]],
           skills |-> IF picked = <<>> THEN select_skills(jd) ELSE picked]

----------------------------------------------------------------------------
TailorInit ==
  /\ phase = "idle"
  /\ jd = {}
  /\ backend = FALSE
  /\ chosen = <<>>
  /\ tailored = <<>>
  /\ skills = <<>>
  /\ pages = 0
  /\ pdf = {}
  /\ ready = FALSE
  /\ requests = 0

(* A click on Tailor, a pasted posting, or the start of an apply agent.    *)
RequestTailoring ==
  /\ phase \in {"idle", "answered"}
  /\ requests < MaxRequests
  /\ requests' = requests + 1
  /\ jd' \in Postings
  /\ backend' \in BOOLEAN
  /\ phase' = "complete"
  /\ chosen' = <<>> /\ tailored' = <<>> /\ skills' = <<>> /\ pages' = 0
  /\ ready' = FALSE
  /\ UNCHANGED pdf

(* One call of the model.  A failure of it is an unusable reply.           *)
CompleteTailoring ==
  /\ phase = "complete"
  /\ \E raw \in IF backend THEN Replies \cup {<<>>} ELSE {<<>>} :
       LET resume == tailor_resume(raw) IN
       /\ chosen' = resume.projects
       /\ tailored' = resume.projects
       /\ skills' = resume.skills
  /\ phase' = "build"
  /\ UNCHANGED <<jd, backend, pages, pdf, ready, requests>>

(* _compile copies the built file over the last one.                       *)
Compile ==
  /\ phase = "build"
  /\ pdf' = {tailored}
  /\ pages' \in {0, 1, 2}
  /\ phase' = "fit"
  /\ UNCHANGED <<jd, backend, chosen, tailored, skills, ready, requests>>

(* RenderError: no engine, or a build that failed; the preview is shown.   *)
(* Nothing catches the timeout of the engine: the request ends in an error.*)
CompileFails ==
  /\ phase = "build"
  /\ phase' \in {"answered", "idle"}
  /\ ready' = FALSE
  /\ UNCHANGED <<jd, backend, chosen, tailored, skills, pages, pdf, requests>>

(* One step of content from the end: a middle bullet of the last project,  *)
(* or else that project; unchanged when nothing more may go.               *)
_trim_for_one_page(projects) ==
  LET n == Len(projects) IN
  IF n > 0 /\ Len(projects[n].bullets) >= 3
  THEN [projects EXCEPT ![n].bullets = RemoveAt(@, 2)]
  ELSE IF n > MinProjects THEN SubSeq(projects, 1, n - 1) ELSE projects

OverOnePage == pages > 1 /\ _trim_for_one_page(tailored) # tailored

Trim ==
  /\ phase = "fit"
  /\ OverOnePage
  /\ tailored' = _trim_for_one_page(tailored)
  /\ phase' = "build"
  /\ UNCHANGED <<jd, backend, chosen, skills, pages, pdf, ready, requests>>

TrimAfterTheBuild ==
  /\ phase = "fit"
  /\ tailored' = IF pages > 1 THEN _trim_for_one_page(tailored) ELSE tailored
  /\ phase' = "answered"
  /\ ready' = TRUE
  /\ UNCHANGED <<jd, backend, chosen, skills, pages, pdf, requests>>

Answer ==
  /\ phase = "fit"
  /\ ~OverOnePage
  /\ phase' = "answered"
  /\ ready' = TRUE
  /\ UNCHANGED <<jd, backend, chosen, tailored, skills, pages, pdf, requests>>

TailorStep == CompleteTailoring \/ Compile \/ CompileFails \/ Trim \/ Answer

TailorNext == RequestTailoring \/ TailorStep

TailorSpec == TailorInit /\ [][TailorNext]_tailorVars

----------------------------------------------------------------------------
(* Properties *)

Sound(resume, p) ==
  \A i \in DOMAIN resume.bullets :
    /\ resume.bullets[i].numbers \subseteq _numbers(p.bullets)
    /\ resume.bullets[i].names \cap known_tech \subseteq _project_names(p)

(* "Metric and technology fabrication is structurally impossible": whatever*)
(* the model answers, every number and every technology of the profile that*)
(* a project's bullets show is one of that project's own, and every skill  *)
(* is an item the profile lists in that category, or a name inside one.    *)
NothingInvented ==
  /\ \A k \in DOMAIN tailored :
       tailored[k].name \in Names /\ Sound(tailored[k], Source(tailored[k].name))
  /\ \A k \in DOMAIN skills : \A item \in skills[k].items :
       \E i \in DOMAIN Skills :
         Skills[i].category = skills[k].category /\ \E whole \in Skills[i].items : item \subseteq whole

(* "The preview shows exactly what the PDF holds", and a trim "keeps its   *)
(* problem and its result": when a request says its PDF is ready, the file *)
(* holds the projects of the preview, these are the first of those chosen, *)
(* no fewer than the fitting must leave, and each still begins and ends as *)
(* it was worded.                                                          *)
AnswerIsThePdf ==
  phase = "answered" /\ ready =>
    /\ pdf = {tailored}
    /\ Len(tailored) >= Count(MinProjects, Len(chosen))
    /\ \A k \in DOMAIN tailored :
         LET was == chosen[k].bullets
             now == tailored[k].bullets
         IN /\ tailored[k].name = chosen[k].name
            /\ was # <<>> => now # <<>> /\ Head(now) = Head(was) /\ Last(now) = Last(was)
=============================================================================
