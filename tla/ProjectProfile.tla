--------------------------- MODULE ProjectProfile ---------------------------
(***************************************************************************)
(* The build profile of a project: the file .kedo/project_profile.json,    *)
(* its copies in memory, and the tools that generate it, build with it and *)
(* overwrite it (core/project_profile.py, tools/profile_guard.py and the   *)
(* build, test, fix, write and shell tools).                               *)
(*                                                                         *)
(* One ProjectProfileManager serves all tasks.  Its cache is keyed by the  *)
(* path as it was given: the build and test tools and auto_fix pass the    *)
(* absolute path, ProfileGuard and shell_execute the configured "." - so a *)
(* project has two cached copies of one file, and only the first is        *)
(* written by save.  Of the guard's copy only the human_verified mark is   *)
(* kept here.  The file may also be changed behind the server's back.      *)
(*                                                                         *)
(* One action is the code between two awaits: the generation of a profile  *)
(* and the LLM call of auto_fix are awaited, the builds and tests are      *)
(* subprocess.run calls that block the server.                             *)
(***************************************************************************)
EXTENDS Integers

CONSTANTS Calls,        \* tool calls that can be in progress at once
          MaxManifest,  \* contents the manifests may have; 0 is no manifest
          PriorCap,     \* MAX_PRIOR_ATTEMPTS (5)
          FixCap        \* the cap auto_fix keeps instead (10)

\* What the constants are taken from.
ConstantsOK ==
    /\ MaxManifest \in Nat
    /\ PriorCap \in Nat \ {0} /\ FixCap \in Nat /\ PriorCap <= FixCap

Manifests == 0 .. MaxManifest

\* from is the manifest the content was generated from, 0 when the content was
\* written by hand or by a patch; fp is manifest_fingerprint; attempts counts
\* prior_attempts, the failures shown to the LLM.
Profiles == [from : Manifests, fp : Manifests, human : BOOLEAN, attempts : 0 .. FixCap]
NoProfile == [from |-> -1]      \* no file, an unreadable file, or no copy of it
OptProfiles == Profiles \cup {NoProfile}

VARIABLES
    manifest,   \* content of CMakeLists.txt, Makefile and the like
    disk,       \* the profile in the file
    cache,      \* _cache[absolute path]
    guardCopy,  \* _cache["."]: "none", "verified" or "unverified"
    call,       \* the tool calls that are suspended
    used,       \* history: the profile the last step ran a command of
    vouched     \* history: the verified profile the server was started with, as
                \* long as the user has not edited it and the file is readable

vars == <<manifest, disk, cache, guardCopy, call, used, vouched>>

Idle == [state |-> "idle"]
CallStates ==
    {Idle} \cup [state : {"fixing"}]
           \cup [state : {"generating"}, builds : BOOLEAN, since : Manifests,
                 carried : 0 .. FixCap]
NotUsed == [since |-> -1]

Vouched(p) == IF p # NoProfile /\ p.human THEN p ELSE NoProfile

Init ==
    /\ manifest \in Manifests
    /\ disk \in {NoProfile} \cup [from : {0}, fp : Manifests, human : BOOLEAN, attempts : {0}]
    /\ cache = NoProfile /\ guardCopy = "none"
    /\ call = [c \in Calls |-> Idle]
    /\ used = NotUsed
    /\ vouched = Vouched(disk)

-----------------------------------------------------------------------------
(* Loading and saving.                                                     *)

\* load: the copy in memory wins over the file, whatever the file says now.
Load(copy) == IF copy = NoProfile THEN disk ELSE copy

\* load of the guard and of shell_execute, under their own key.
GuardLoads ==
    CASE guardCopy # "none" -> guardCopy
      [] guardCopy = "none" /\ disk = NoProfile -> "none"
      [] guardCopy = "none" /\ disk # NoProfile ->
             IF disk.human THEN "verified" ELSE "unverified"

\* A verified profile grows stale like any other.
MUTANT_Stale(p) == p.fp # manifest

\* is_stale
Stale(p) == ~p.human /\ p.fp # manifest

AtMost(n, cap) == IF n < cap THEN n ELSE cap

\* save of a copy that was changed in place: when writing fails the copy stays
\* changed, the file as it was (now) or cut off.
SaveChanged(p, now) ==
    /\ cache' = p
    /\ disk' \in {p, now, NoProfile}

\* mark_failure of a build; a build that printed nothing adds no attempt.
MarkFailure(p, now) ==
    \E n \in {p.attempts, AtMost(p.attempts + 1, PriorCap)} :
        SaveChanged([p EXCEPT !.attempts = n], now)

\* The command of a tool is run; a failed build is marked, if there is a
\* profile to mark it in.
RunCommand(builds, copy) ==
    \/ builds /\ Load(copy) # NoProfile /\ MarkFailure(Load(copy), disk)
    \/ cache' = copy /\ UNCHANGED disk

Uses(p, since) ==
    used' = [from |-> p.from, human |-> p.human, since |-> since]

-----------------------------------------------------------------------------
(* build, host_test and emulator_test.                                     *)

\* The tool trusts the copy without comparing fingerprints.
MUTANT_Usable(p) == p # NoProfile

\* ensure returns what it loaded.
Usable(p) == p # NoProfile /\ ~Stale(p)

\* ensure finds a profile that fits: the tool runs its command at once.
UseProfile(c, builds) ==
    LET p == Load(cache)
    IN  /\ call[c] = Idle /\ Usable(p)
        /\ Uses(p, manifest)
        /\ RunCommand(builds, p)
        /\ UNCHANGED <<manifest, guardCopy, call>>

\* Nothing to generate a profile from: a build detects its command itself.
NoManifests(c, builds) ==
    /\ call[c] = Idle /\ ~Usable(Load(cache)) /\ manifest = 0
    /\ RunCommand(builds, Load(cache))
    /\ used' = NotUsed
    /\ UNCHANGED <<manifest, guardCopy, call>>

\* The LLM is asked for a profile; the failures so far are taken along.
Generate(c, builds) ==
    LET p == Load(cache)
    IN  /\ call[c] = Idle /\ ~Usable(p) /\ manifest # 0
        /\ cache' = p
        /\ call' = [call EXCEPT ![c] =
               [state |-> "generating", builds |-> builds, since |-> manifest,
                carried |-> IF p = NoProfile THEN 0 ELSE p.attempts]]
        /\ used' = NotUsed
        /\ UNCHANGED <<manifest, disk, guardCopy>>

NewProfile(g) ==
    [from |-> g.since, fp |-> g.since, human |-> FALSE, attempts |-> g.carried]

Generated(c) ==
    LET g == call[c]
        p == NewProfile(g)
    IN  /\ g.state = "generating"
        /\ \/ cache' = p /\ disk' = p
           \/ g.builds /\ MarkFailure(p, p)
        /\ Uses(p, g.since)
        /\ call' = [call EXCEPT ![c] = Idle]
        /\ UNCHANGED <<manifest, guardCopy>>

\* The LLM fails, or the new profile cannot be saved: the tool goes on without
\* a profile, and a build that fails is held against the old one.
NotGenerated(c) ==
    /\ call[c].state = "generating"
    /\ RunCommand(call[c].builds, cache)
    /\ call' = [call EXCEPT ![c] = Idle]
    /\ used' = NotUsed
    /\ UNCHANGED <<manifest, guardCopy>>

NotSaved(c) ==
    /\ call[c].state = "generating"
    /\ \E now \in {disk, NoProfile} :
           LET p == IF cache = NoProfile THEN now ELSE cache
           IN  \/ /\ disk' = now /\ UNCHANGED cache
               \/ call[c].builds /\ p # NoProfile /\ MarkFailure(p, now)
    /\ call' = [call EXCEPT ![c] = Idle]
    /\ used' = NotUsed
    /\ UNCHANGED <<manifest, guardCopy>>

-----------------------------------------------------------------------------
(* auto_fix.                                                               *)

\* The failures so far are loaded for the prompt, the LLM is asked.
StartFix(c) ==
    /\ call[c] = Idle
    /\ cache' = Load(cache)
    /\ call' = [call EXCEPT ![c] = [state |-> "fixing"]]
    /\ used' = NotUsed
    /\ UNCHANGED <<manifest, disk, guardCopy>>

\* The patch is recorded as an attempt, in the copy in memory if there is one:
\* the file is then overwritten by it, a patch of the file included.
RecordAttempt(now) ==
    LET p == IF cache = NoProfile THEN now ELSE cache
    IN  IF p = NoProfile
        THEN disk' = now /\ UNCHANGED cache
        ELSE SaveChanged([p EXCEPT !.attempts = AtMost(@ + 1, FixCap)], now)

\* A call that ends without effect: no answer, an answer that cannot be used,
\* a patch the guard rejects, a cancelled task.
CallFails(c) ==
    /\ call[c] # Idle
    /\ call' = [call EXCEPT ![c] = Idle]
    /\ used' = NotUsed
    /\ UNCHANGED <<manifest, disk, cache, guardCopy>>

\* A patch of a source file or of a manifest.
FixProject(c) ==
    /\ call[c].state = "fixing"
    /\ manifest' \in Manifests
    /\ RecordAttempt(disk)
    /\ call' = [call EXCEPT ![c] = Idle]
    /\ used' = NotUsed
    /\ UNCHANGED guardCopy

\* What an LLM may put into the file.
Written == [from : {0}, fp : Manifests, human : BOOLEAN, attempts : {0}]

\* A patch of the profile itself; the guard looks at its own copy.
FixProfile(c) ==
    /\ call[c].state = "fixing"
    /\ guardCopy' = GuardLoads
    /\ \/ /\ GuardLoads = "verified"
          /\ UNCHANGED <<disk, cache>>
       \/ /\ GuardLoads # "verified"
          /\ \E p \in Written : RecordAttempt(p)
    /\ call' = [call EXCEPT ![c] = Idle]
    /\ used' = NotUsed
    /\ UNCHANGED manifest

-----------------------------------------------------------------------------
(* The other writers.                                                      *)

\* file_write and code_generate overwrite the profile unless the guard objects.
WriteProfile ==
    /\ guardCopy' = GuardLoads
    /\ GuardLoads # "verified"
    /\ disk' \in Written
    /\ used' = NotUsed
    /\ UNCHANGED <<manifest, cache, call>>

\* file_write in append mode does not ask the guard; text after the object
\* makes the file unreadable.
AppendToProfile ==
    /\ disk # NoProfile
    /\ disk' = NoProfile
    /\ used' = NotUsed
    /\ UNCHANGED <<manifest, cache, guardCopy, call>>

\* shell_execute loads the profile for its environment, under the guard's key.
Shell ==
    /\ guardCopy' = GuardLoads
    /\ used' = NotUsed
    /\ UNCHANGED <<manifest, disk, cache, call>>

\* Anyone edits a manifest: a tool, a command, the user, git.
EditManifest ==
    /\ manifest' \in Manifests \ {manifest}
    /\ used' = NotUsed
    /\ UNCHANGED <<disk, cache, guardCopy, call>>

\* The user marks the profile as verified or takes the mark back, rewrites it,
\* or removes it.
EditProfile ==
    /\ disk' \in Written \cup {NoProfile} \cup
                 IF disk = NoProfile THEN {} ELSE {[disk EXCEPT !.human = ~@]}
    /\ used' = NotUsed
    /\ vouched' = NoProfile
    /\ UNCHANGED <<manifest, cache, guardCopy, call>>

\* The server is started anew: only the files remain.
Restart ==
    /\ cache' = NoProfile /\ guardCopy' = "none"
    /\ call' = [c \in Calls |-> Idle]
    /\ used' = NotUsed
    /\ vouched' = Vouched(disk)
    /\ UNCHANGED <<manifest, disk>>

\* A step of the server; a file it leaves unreadable vouches for nothing.
ToolStep ==
    \/ \E c \in Calls :
           \/ \E builds \in BOOLEAN :
                  UseProfile(c, builds) \/ NoManifests(c, builds) \/ Generate(c, builds)
           \/ Generated(c) \/ NotGenerated(c) \/ NotSaved(c)
           \/ StartFix(c) \/ CallFails(c) \/ FixProject(c) \/ FixProfile(c)
    \/ WriteProfile \/ AppendToProfile \/ Shell \/ EditManifest

Next ==
    \/ ToolStep /\ vouched' = IF disk' = NoProfile THEN NoProfile ELSE vouched
    \/ EditProfile \/ Restart

Spec == Init /\ [][Next]_vars
-----------------------------------------------------------------------------
(* Properties.                                                             *)

\* Every variable holds a value of its kind; the list of failures stays within
\* the larger of the two caps its writers apply.
TypeOK ==
    /\ manifest \in Manifests
    /\ disk \in OptProfiles /\ cache \in OptProfiles
    /\ guardCopy \in {"none", "verified", "unverified"}
    /\ call \in [Calls -> CallStates]
    /\ used \in {NotUsed} \cup [from : Manifests, human : BOOLEAN, since : Manifests]
    /\ vouched \in OptProfiles

\* A command is run from a generated, unverified profile only if the profile
\* was made from the manifests the tool call found when it began, whatever
\* other calls generated, saved or patched in between.
BuiltFromCurrent ==
    used # NotUsed /\ ~used.human /\ used.from # 0 => used.from = used.since

\* The same profile, but for the failures recorded in it.
Alike(p, q) ==
    /\ p # NoProfile /\ q # NoProfile
    /\ p.human = q.human /\ p.from = q.from /\ p.fp = q.fp

\* A profile that was verified when the server started ("a profile verified by
\* hand never grows stale by itself", is_stale) is in the file until the user
\* edits it or the file becomes unreadable: whichever tools work with it, mark
\* it as failed, generate, patch and write, none puts another in its place.
\* A mark that is set while the server runs is with MarkedIsReadOnly.
VerifiedStays == vouched # NoProfile => Alike(disk, vouched)

\* NOT a property of the code.  auto_fix cannot change a profile that is marked
\* human_verified, and no tool overwrites it (docs/architecture.md 75 and 87,
\* profile_guard.py 5).  ProfileGuard asks the copy it loaded before (48), so a
\* mark set since then in the file does not keep it from being overwritten.
MarkedIsReadOnly ==
    [][/\ disk # NoProfile /\ disk.human
       /\ WriteProfile \/ \E c \in Calls : FixProfile(c)
       => Alike(disk', disk)]_vars

(* What makes BuiltFromCurrent inductive.                                  *)

\* A generated profile carries the fingerprint of the manifest it was made from,
\* also after failures and patches have been recorded in it and a user has
\* marked it.
Fits(p) == p # NoProfile /\ p.from # 0 => p.from = p.fp

IInv == TypeOK /\ Fits(disk) /\ Fits(cache) /\ BuiltFromCurrent

(* What makes VerifiedStays inductive: no copy says otherwise, and no call     *)
(* that began before is still generating.                                      *)
Guarded ==
    vouched # NoProfile =>
        /\ vouched.human
        /\ cache = NoProfile \/ Alike(cache, vouched)
        /\ guardCopy # "unverified"
        /\ \A c \in Calls : call[c].state # "generating"

VouchedInv == VerifiedStays /\ Guarded
=============================================================================
