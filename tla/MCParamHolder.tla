----------------------------- MODULE MCParamHolder -----------------------------
(* ParamHolder over the tables, frames and group index of the library. *)
EXTENDS ParamHolder, AbstractTables, AbstractGroups

MCTables      == TA_DEF_Tables
MCGroupString == TA_GroupString
MCPerGroup    == TA_PerGroupFuncDef
===============================================================================
