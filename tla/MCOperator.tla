------------------------------ MODULE MCOperator ------------------------------
(* Commands of the operator, for TLC.  An apply of a migration and the     *)
(* templates catalog share no state and take different locks.  A behaviour *)
(* of this run is of one of them, chosen at the start.                     *)
EXTENDS MCMigrationApply, TemplateCatalog

VARIABLE part

OperatorInit ==
    /\ ApplyInit /\ CatalogInit
    /\ \/ part = "catalog"
       \/ part = "migration" /\ Live = NoDir

OnMigration == part = "migration" /\ ApplyNext /\ UNCHANGED <<catalogVars, part>>
OnCatalog == part = "catalog" /\ CatalogNext /\ UNCHANGED <<vars, part>>

OperatorSpec == OperatorInit /\ [][OnMigration \/ OnCatalog]_<<vars, catalogVars, part>>

OperatorTypesOK == ApplyTypeOK /\ CatalogTypeOK

OperatorSymmetry == Symmetry \cup Permutations(Commands) \cup Permutations(Catalogs)
=============================================================================
