-------------------------------- MODULE Linker --------------------------------
(***************************************************************************)
(* linker.py: the imports of a game's modules against the exports of the   *)
(* others.  A symbol stands for a library, a kind and a NID.               *)
(***************************************************************************)

CONSTANTS
    Units,        \* modules that may take part
    Symbols,
    Imports,      \* unit -> the symbols it imports
    Exports,      \* unit -> the symbols it exports
    Known,        \* symbols the NID databases name
    Named         \* unit -> exports at whose address it has a name of its own

ASSUME LinkerAssumption ==
    /\ Imports \in [Units -> SUBSET Symbols]
    /\ Exports \in [Units -> SUBSET Symbols]
    /\ Known \subseteq Symbols
    /\ Named \in [Units -> SUBSET Symbols]

\* The other units that export what unit u imports.
Providers(units, u, s) == {v \in units \ {u} : s \in Exports[v]}

\* _resolution, _is_strong_resolution, _local_name: where a link's name is from.
NameSource(v, s) ==
    CASE s \in Known -> "database"
      [] s \notin Known /\ s \in Named[v] -> "module"
      [] OTHER -> "unresolved"

\* link_modules: one provider makes a link, several only a warning.
Links(units) ==
    {l \in [importer: units, exporter: units, symbol: Symbols,
            source: {"database", "module", "unresolved"}] :
        /\ l.symbol \in Imports[l.importer]
        /\ Providers(units, l.importer, l.symbol) = {l.exporter}
        /\ l.source = NameSource(l.exporter, l.symbol)}
=============================================================================
