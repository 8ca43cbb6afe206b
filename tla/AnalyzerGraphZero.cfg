SPECIFICATION MCSpec
CONSTANT Zero = TRUE
PROPERTY OrderIndependent
