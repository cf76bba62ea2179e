SPECIFICATION AutodiffSpec
CONSTANTS
    Queries <- MCQueries
    ColumnTypes <- MCColumnTypes
    Rows <- MCRows
    Payloads <- MCPayloads
    Lambdas <- MCLambdas
    Tables <- MCTables
INVARIANTS
    CompiledIsSql
    TrapsAsSql
    DerivativesRight
CHECK_DEADLOCK FALSE
