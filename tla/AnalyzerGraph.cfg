SPECIFICATION MCSpec
CONSTANT Zero = FALSE
INVARIANT EdgesComplete
PROPERTY OrderIndependent
