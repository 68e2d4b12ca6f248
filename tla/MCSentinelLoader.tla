--------------------------- MODULE MCSentinelLoader ---------------------------
(* A small machine for SentinelLoader: two-cell blocks, a binary linked at *)
(* a load base of 4, libc over two blocks, ld.so below libc (its offsets   *)
(* then wrap) and in libc's first block, two libraries that share a block. *)
EXTENDS SentinelLoader

At(start, size) == [start |-> start, size |-> size]

Packed == [main |-> At(0, 2), libc |-> At(5, 3), ld |-> At(4, 1),
           la |-> At(8, 1), lb |-> At(9, 2)]
OneLayout == {Packed}

OldSection == [a \in Address |-> IF a = 4 THEN 1 ELSE IF a = 5 THEN AnyNr ELSE None]
NewSection == [a \in Address |-> IF a = 5 THEN AnyNr ELSE None]
Rebuilt == <<OldSection, NewSection>>

Rules1 == [a \in Address |-> IF a = 0 THEN 1 ELSE IF a = 2 THEN AnyNr ELSE None]
Sites == [o \in {"ld", "la", "lb"} |-> {0}]
MainCfi == [a \in Address |-> IF a = 1 THEN [start |-> 0, end |-> 1] ELSE None]
SomeStacks == {<<>>, <<1>>, <<11>>}

Plain == [audit_mode |-> FALSE, enforce_mode |-> "kill", learn_mode |-> FALSE,
          shadow_cfi |-> FALSE, system_wide |-> FALSE, cgroup_filter |-> FALSE,
          watch_dlopen |-> FALSE, imports |-> FALSE, surface |-> FALSE]
Audit == [Plain EXCEPT !.audit_mode = TRUE, !.enforce_mode = "term",
                       !.watch_dlopen = TRUE, !.shadow_cfi = TRUE,
                       !.imports = TRUE]
Learn == [Plain EXCEPT !.audit_mode = TRUE, !.learn_mode = TRUE,
                       !.enforce_mode = "permissive", !.cgroup_filter = TRUE]
Surface == [Plain EXCEPT !.surface = TRUE]
SystemWide == [Plain EXCEPT !.system_wide = TRUE]
AllConfigs == {Plain, Audit, Learn, Surface, SystemWide}
=============================================================================
