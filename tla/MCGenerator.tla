---------------------------- MODULE MCGenerator ----------------------------
(* Instances of Generator for TLC.                                         *)
EXTENDS Generator

File(digits, rest) == [type |-> "DT_REG", digits |-> digits, rest |-> rest]

(* 1.sql to 3.sql, 01.sql, .sql, 2a.sql, a directory that is called 2.sql, *)
(* and, for an int of 4 bits and a long of 8, 18.sql, which is migration_2,*)
(* and 999.sql, which is migration_-1.                                     *)
Entries ==
  { File(<<1>>, ".sql"), File(<<2>>, ".sql"), File(<<3>>, ".sql"),
    File(<<0, 1>>, ".sql"), File(<<>>, ".sql"), File(<<1, 8>>, ".sql"), File(<<9, 9, 9>>, ".sql"),
    File(<<2>>, "a.sql"), [type |-> "DT_DIR", digits |-> <<2>>, rest |-> ".sql"] }

=============================================================================
