---------------------------- MODULE PageTables ----------------------------
(***************************************************************************)
(* The page tables of kernel/memory.c (pml4_create to pml4_map_phys).  Of  *)
(* each table only the entry on the way to the framebuffer's address is    *)
(* kept, the only address the kernel ever maps; it maps 2 MB pages, so the *)
(* way is PML4, PDPT, PD.  The heap gives the lowest page that is not in   *)
(* use, so that freed ones are used again at once, or none.                *)
(***************************************************************************)
EXTENDS Integers

CONSTANT Pages          \* pages the heap has for tables

ASSUME PageAssumption == Pages \subseteq Nat \ {0}

Boot == 0               \* the PML4 of the boot code, which is not in the heap
None == -1              \* an entry that is not present
Framebuffer == -2

(* The tables at boot: entries, pages in use, the PML4s among them, and    *)
(* CR3.  The boot code maps the first gigabyte, through the first entry of *)
(* its tables, only.                                                       *)
Booted ==
    [entry |-> [t \in {Boot} \union Pages |-> None], used |-> {}, roots |-> {}, cr3 |-> Boot]

(* What page_alloc and mmap_user return: one page, or nothing for NULL.    *)
page_alloc(vm) ==
    LET free == Pages \ vm.used IN {p \in free : \A q \in free : p <= q}

pml4_get_current(vm) == vm.cr3

(* The new PML4 is a copy: it shares the tables below with the loaded one. *)
pml4_create(vm, p) ==
    [vm EXCEPT !.used = @ \union {p}, !.roots = @ \union {p},
               !.entry[p] = vm.entry[pml4_get_current(vm)]]

pml4_load(vm, root) == [vm EXCEPT !.cr3 = root]

(* Mutant: the tables below go with the PML4.                              *)
pml4_destroy_deep(vm, root) ==
    IF root \notin Pages THEN vm
    ELSE [vm EXCEPT !.used = @ \ {root, vm.entry[root]}, !.roots = @ \ {root}]

(* Only the PML4 itself is given back, the tables below are not; buddy_free*)
(* ignores what is not a page of the heap.                                 *)
pml4_destroy(vm, root) ==
    IF root \notin Pages THEN vm
    ELSE [vm EXCEPT !.used = @ \ {root}, !.roots = @ \ {root}, !.entry[root] = None]

(* The tables once table t has an entry; none if mmap_user fails.          *)
Grown(vm, t) ==
    IF vm.entry[t] # None THEN {vm}
    ELSE {[vm EXCEPT !.used = @ \union {p}, !.entry = [@ EXCEPT ![p] = None, ![t] = p]] :
             p \in page_alloc(vm)}

(* What pml4_map_phys may leave behind: nothing, or a PDPT alone, when     *)
(* mmap_user returns NULL; the whole way, and CR3 loaded, when it does not.*)
pml4_map_phys(vm, root) ==
    LET upper == Grown(vm, root)
        lower == UNION {Grown(v, v.entry[root]) : v \in upper}
        mapped(v) == [v EXCEPT !.entry[v.entry[v.entry[root]]] = Framebuffer]
    IN  {vm} \union upper \union {pml4_load(mapped(v), root) : v \in lower}

=============================================================================
